---- MODULE Spec2Model ----
(***************************************************************************)
(* Model of src-tauri/src/lib.rs of klia-store: the registry of            *)
(* interactive flatpak sessions (ProcessMap) with its four commands and    *)
(* the background threads of a session, and the two-phase dependency probe *)
(* of get_install_dependencies.                                            *)
(***************************************************************************)
EXTENDS Integers, Sequences, FiniteSets, TLC

\* ------------------------------------------------------------------------
\* Bounds of the model
\* ------------------------------------------------------------------------
\* Number of command invocations (start / send / kill / check) in a run.
MaxCalls == 3
\* Number of command invocations in a run that also follows the output streams.
MaxStreamCalls == 2
\* Number of chunks or lines one session process writes to stdout + stderr.
MaxOut == 1
\* Number of lines the probe process of get_install_dependencies writes.
MaxProbeLines == 2
\* Bytes on stdout plus lines on stderr that a relayed child writes.
MaxRelayLen == 5
\* Output and error events a streaming command receives before the last one.
MaxRunEvents == 2
\* Lines of the output of flatpak list.
MaxRows == 3
\* Pieces of an identifier handed to extract_developer.
MaxIdLen == 4
\* Lines of the output the dependency parser reads.
MaxDepLines == 3
\* Lines of the metadata of an app.
MaxMetaLines == 2

\* ------------------------------------------------------------------------
\* Program constants of get_install_dependencies, in units of 100 ms
\* ------------------------------------------------------------------------
\* Duration::from_secs(7)
TimeoutTicks == 70
\* sleep(Duration::from_millis(500)) once the list was found
GraceTicks == 5
\* sleep(Duration::from_millis(100)) at the end of an iteration
PollTicks == 1

\* ------------------------------------------------------------------------
\* Values
\* ------------------------------------------------------------------------
\* The app_id arguments of the commands.
Keys == {"org.app.a", "org.app.b"}
\* The input arguments of send_to_pty, as sequences of characters.
Inputs == {<<"y">>, <<"n">>}
\* The threads of the async runtime that execute the commands.
Threads == {"t1", "t2"}
\* Identities of the child processes (one per successful spawn).
Procs == 1..MaxCalls
\* "No entry" (HashMap::get returns None) / "no process".
None == 0
NL == "\n"

VARIABLES
    map,        \* ProcessMap: app_id -> process of the stored PtyProcess, or None
    lock,       \* owner of the Mutex of ProcessMap between two steps, or "free"
    procState,  \* per child: "unspawned", "running", "exited"
    procKey,    \* per child: the app_id it was spawned for
    killed,     \* per child: Child::kill() has been called on it
    written,    \* per child: chunks/lines written so far to stdout + stderr
    pipeOut,    \* per child: chunks waiting in the stdout pipe
    pipeErr,    \* per child: lines waiting in the stderr pipe
    stdinBuf,   \* per child: bytes written to ChildStdin and not flushed
    stdinPipe,  \* per child: bytes flushed into the stdin pipe
    rdOut,      \* per session: stdout reader thread "none", "reading", "done"
    rdErr,      \* per session: stderr reader thread "none", "reading", "done"
    wd,         \* per session: watchdog thread "none", "polling", "done"; for
                \* install_flatpak the thread in child.wait(): "waiting"
    inj,        \* per session: confirmation thread "none", "sleeping", and once
                \* it has ended "written" or "failed" (what its write did)
    events,     \* per session: the events emitted about it, in order
    pc,         \* per runtime thread: position inside a command
    local,      \* per runtime thread: the locals of the command it executes
    ret,        \* the last value a command returned
    calls,      \* number of commands that have returned
    limit,      \* number of command invocations of this run
    \* get_install_dependencies
    probePc,        \* position inside get_install_dependencies
    needs_runtime,  \* combined_first.contains("Required runtime for")
    child,          \* the phase-2 child: "none", "running", "exited"
    childKilled,    \* child.kill() has been called
    childWritten,   \* lines the child has written so far
    childOut,       \* lines waiting in the child's stdout pipe
    childErr,       \* number of lines waiting in the child's stderr pipe
    stdout_thread,  \* "none", "reading", "done"
    stderr_thread,  \* "none", "reading", "done"
    output_lines,   \* Vec<String> filled by stdout_thread
    error_lines,    \* number of lines pushed by stderr_thread
    found_list,     \* Mutex<bool> set by stdout_thread
    elapsed,        \* start.elapsed()
    loopExit,       \* how the wait loop was left: "none", "found", "exited", "timeout"
    probeRet,       \* what get_install_dependencies returned: "none", "Ok",
                    \* "Failed to execute flatpak", "Failed to spawn process"
    pipeline,       \* the commands of the phase-2 `sh -c` pipeline (printf, script
                    \* and the flatpak under it): "none", "running", "exited"
    stdout,         \* phase 1: output.stdout, as a sequence of tokens
    stderr,         \* phase 1: output.stderr, as a sequence of tokens
    combined_output, \* the (stdout, stderr) pair handed to the parse
    is_flatpak,     \* std::env::var("FLATPAK_ID").is_ok()
    cmd_str,        \* phase 2: the command line given to sh -c, as tokens
    \* the stdout and stderr relay threads of one session
    stdoutBytes,    \* the bytes the child writes to stdout, in order
    stdoutPos,      \* how many of them the stdout thread has read
    chunk,          \* the chunk of the last read
    stdout_reader,  \* the stdout thread: "reading", "done"
    stderrLines,    \* the lines the child writes to stderr, in order
    stderrPos,      \* how many of them the stderr thread has read
    stderr_reader,  \* the stderr thread: "reading", "done"
    relayEvents,    \* the events the two threads emitted, in order
    \* one streaming run-to-completion command (update_flatpak, ...)
    runOp,          \* the command that was invoked, "" before
    runPc,          \* its position: "idle", "spawn", "recv", "done"
    event,          \* the CommandEvent rx.recv() returned last
    runRecv,        \* how many events rx.recv() has returned
    runEvents,      \* the events the command emitted, in order
    runRet,         \* what the command returned, "none" before
    \* the command line an operation runs
    cmdOp,          \* the operation, "" before any
    cmdArg,         \* its app_id / extension_id argument
    cmdFlatpak,     \* is_flatpak as the operation read it
    cmdLine,        \* the program and its arguments, as tokens
    \* get_installed_flatpaks
    listDone,       \* whether the listing has been read
    listLines,      \* stdout.lines() of flatpak list
    listOut,        \* the InstalledPackagesResponse
    \* extract_developer
    devDone,        \* whether it has been called
    devId,          \* app_id
    devOut,         \* Some(developer) as <<developer>>, None as <<>>
    \* get_install_dependencies, parsing
    depDone,        \* whether the output has been parsed
    depLines,       \* combined_output.lines()
    depOut,         \* the Vec<Dependency> returned
    \* get_installable_extensions
    extDone,        \* whether it has run
    extAppId,       \* app_id
    extMetadata,    \* metadata.lines()
    extSearch,      \* stdout.lines() of flatpak search
    extPoints,      \* extension_points, each searched for
    extOut          \* installable_extensions

sessVars == <<map, lock, procState, procKey, killed, written, pipeOut, pipeErr,
              stdinBuf, stdinPipe, rdOut, rdErr, wd, inj, events, pc, local, ret,
              calls, limit>>

probeVars == <<probePc, needs_runtime, child, childKilled, childWritten, childOut,
               childErr, stdout_thread, stderr_thread, output_lines, error_lines,
               found_list, elapsed, loopExit, probeRet, pipeline, stdout, stderr,
               combined_output, is_flatpak, cmd_str>>

relayVars == <<stdoutBytes, stdoutPos, chunk, stdout_reader, stderrLines, stderrPos,
               stderr_reader, relayEvents>>

runVars == <<runOp, runPc, event, runRecv, runEvents, runRet>>

cmdVars == <<cmdOp, cmdArg, cmdFlatpak, cmdLine>>

\* The variables of the functions that are checked on their own.
listVars == <<listDone, listLines, listOut>>

devVars == <<devDone, devId, devOut>>

depVars == <<depDone, depLines, depOut>>

extVars == <<extDone, extAppId, extMetadata, extSearch, extPoints, extOut>>

pureVars == <<cmdVars, listVars, devVars, depVars, extVars>>

\* All but the variables of one of these functions.
baseVars == <<sessVars, probeVars, relayVars, runVars>>
exceptCmd == <<baseVars, listVars, devVars, depVars, extVars>>
exceptList == <<baseVars, cmdVars, devVars, depVars, extVars>>
exceptDev == <<baseVars, cmdVars, listVars, depVars, extVars>>
exceptDep == <<baseVars, cmdVars, listVars, devVars, extVars>>
exceptExt == <<baseVars, cmdVars, listVars, devVars, depVars>>

otherVars == <<relayVars, runVars, pureVars>>

vars == <<sessVars, probeVars, otherVars>>

NoLocal == [key |-> "", proc |-> None, input |-> <<>>]
NoRet == [op |-> "none", key |-> "", value |-> "none"]

\* Result<_, String> values of the commands; check_pty_process returns
\* Ok(true) / Ok(false), written "true" / "false".
OkUnit == "Ok"
ErrNotFound == "No process found for app_id"
ErrSpawn == "Failed to spawn process"
ErrWrite == "Failed to write to stdin"

\* ------------------------------------------------------------------------
\* Helpers
\* ------------------------------------------------------------------------
\* A new command may be invoked on an idle runtime thread.
CanCall(c) ==
    /\ pc[c] = "idle"
    /\ calls + Cardinality({t \in Threads : pc[t] # "idle"}) < limit

\* The command returns v to its caller.
Return(c, op, k, v) ==
    /\ pc' = [pc EXCEPT ![c] = "idle"]
    /\ local' = [local EXCEPT ![c] = NoLocal]
    /\ ret' = [op |-> op, key |-> k, value |-> v]
    /\ calls' = calls + 1

\* Command::spawn(): the identity of the next child.
NewProc == CHOOSE p \in Procs : procState[p] = "unspawned" /\
                                \A q \in Procs : procState[q] = "unspawned" => p <= q

\* Child::try_wait(): Ok(None) while the child runs; once it has exited,
\* Ok(Some(status)), or Err when waitpid fails (the child is no longer there
\* to be waited for).
TryWait(p) == IF procState[p] = "running" THEN {"OkNone"} ELSE {"OkSome", "Err"}

\* Variant of SendBytes: the line terminator is forgotten.
SendBytesNoNewline(input) == input

\* format!("{}\n", input).as_bytes()
SendBytes(input) == input \o <<NL>>

\* app.emit(name, (app_id, ..)) about session p.
Emit(ev, p, name) == [ev EXCEPT ![p] = Append(@, name)]

\* ------------------------------------------------------------------------
\* Init: run() manages ProcessMap::default(); no process, no thread.
\* ------------------------------------------------------------------------
SessInitWith(n) ==
    /\ map = [k \in Keys |-> None]
    /\ lock = "free"
    /\ procState = [p \in Procs |-> "unspawned"]
    /\ procKey = [p \in Procs |-> ""]
    /\ killed = [p \in Procs |-> FALSE]
    /\ written = [p \in Procs |-> 0]
    /\ pipeOut = [p \in Procs |-> 0]
    /\ pipeErr = [p \in Procs |-> 0]
    /\ stdinBuf = [p \in Procs |-> <<>>]
    /\ stdinPipe = [p \in Procs |-> <<>>]
    /\ rdOut = [p \in Procs |-> "none"]
    /\ rdErr = [p \in Procs |-> "none"]
    /\ wd = [p \in Procs |-> "none"]
    /\ inj = [p \in Procs |-> "none"]
    /\ events = [p \in Procs |-> <<>>]
    /\ pc = [c \in Threads |-> "idle"]
    /\ local = [c \in Threads |-> NoLocal]
    /\ ret = NoRet
    /\ calls = 0
    /\ limit = n

SessInit == SessInitWith(MaxCalls)

\* ------------------------------------------------------------------------
\* start_flatpak_interactive
\* ------------------------------------------------------------------------
\* Command::new("sh")...spawn() succeeds; stdin/stdout/stderr are taken.
StartSpawn(c, k) ==
    /\ CanCall(c)
    /\ procState' = [procState EXCEPT ![NewProc] = "running"]
    /\ procKey' = [procKey EXCEPT ![NewProc] = k]
    /\ pc' = [pc EXCEPT ![c] = "start_insert"]
    /\ local' = [local EXCEPT ![c] = [key |-> k, proc |-> NewProc, input |-> <<>>]]
    /\ UNCHANGED <<map, lock, killed, written, pipeOut, pipeErr, stdinBuf, stdinPipe,
                   rdOut, rdErr, wd, events, ret, calls, inj, limit, probeVars, otherVars>>

\* spawn() fails: map_err(..)? returns the error, nothing else happened.
StartSpawnFail(c, k) ==
    /\ CanCall(c)
    /\ Return(c, "start", k, ErrSpawn)
    /\ UNCHANGED <<map, lock, procState, procKey, killed, written, pipeOut, pipeErr,
                   stdinBuf, stdinPipe, rdOut, rdErr, wd, events, inj, limit, probeVars,
                   otherVars>>

\* map.insert(app_id, PtyProcess { child, stdin }): the value stored under
\* the key is replaced; a replaced PtyProcess is dropped, which neither kills
\* nor waits for its child.
MapInsert(m, k, p) == [m EXCEPT ![k] = p]

\* { lock; map.insert } then the three thread::spawn calls, then Ok(()).
StartInsert(c) ==
    /\ pc[c] = "start_insert"
    /\ lock = "free"
    /\ LET k == local[c].key
           p == local[c].proc
       IN  /\ map' = MapInsert(map, k, p)
           /\ rdOut' = [rdOut EXCEPT ![p] = "reading"]
           /\ rdErr' = [rdErr EXCEPT ![p] = "reading"]
           /\ wd' = [wd EXCEPT ![p] = "polling"]
           /\ Return(c, "start", k, OkUnit)
    /\ UNCHANGED <<lock, procState, procKey, killed, written, pipeOut, pipeErr,
                   stdinBuf, stdinPipe, events, inj, limit, probeVars, otherVars>>

\* ------------------------------------------------------------------------
\* send_to_pty
\* ------------------------------------------------------------------------
\* processes.lock(); map.get_mut(&app_id): the else branch returns Err at
\* once (the guard is dropped), the Some branch goes on to the write with the
\* guard alive.
SendLock(c, k, input) ==
    /\ CanCall(c)
    /\ lock = "free"
    /\ IF map[k] = None
       THEN /\ Return(c, "send", k, ErrNotFound)
            /\ UNCHANGED lock
       ELSE /\ lock' = c
            /\ pc' = [pc EXCEPT ![c] = "send_write"]
            /\ local' = [local EXCEPT ![c] = [key |-> k, proc |-> map[k], input |-> input]]
            /\ UNCHANGED <<ret, calls>>
    /\ UNCHANGED <<map, procState, procKey, killed, written, pipeOut, pipeErr,
                   stdinBuf, stdinPipe, rdOut, rdErr, wd, events, inj, limit, probeVars,
                   otherVars>>

\* stdin.write_all(bytes): the bytes are appended to the stream.
WriteAll(buf, bytes) == buf \o bytes

\* Variant of SendWrite: a failed write drops the entry.
SendWriteDropsEntry(c) ==
    /\ pc[c] = "send_write"
    /\ LET k == local[c].key
           p == local[c].proc
       IN \E ok \in IF procState[p] = "running" THEN {TRUE} ELSE BOOLEAN :
            IF ok
            THEN /\ stdinPipe' = [stdinPipe EXCEPT ![p] =
                                     @ \o WriteAll(stdinBuf[p], SendBytes(local[c].input))]
                 /\ stdinBuf' = [stdinBuf EXCEPT ![p] = <<>>]
                 /\ Return(c, "send", k, OkUnit)
                 /\ UNCHANGED map
            ELSE /\ UNCHANGED <<stdinBuf, stdinPipe>>
                 /\ Return(c, "send", k, ErrWrite)
                 /\ map' = [map EXCEPT ![k] = None]
    /\ lock' = "free"
    /\ UNCHANGED <<procState, procKey, killed, written, pipeOut, pipeErr,
                   rdOut, rdErr, wd, events, inj, limit, probeVars, otherVars>>

\* stdin.write_all(..)?; stdin.flush()?; Ok(()) -- the MutexGuard `map` lives
\* until the function returns.  The write succeeds while the child runs; once
\* the child has exited it succeeds or fails (broken pipe).
SendWrite(c) ==
    /\ pc[c] = "send_write"
    /\ LET k == local[c].key
           p == local[c].proc
       IN \E ok \in IF procState[p] = "running" THEN {TRUE} ELSE BOOLEAN :
            IF ok
            THEN /\ stdinPipe' = [stdinPipe EXCEPT ![p] =
                                     @ \o WriteAll(stdinBuf[p], SendBytes(local[c].input))]
                 /\ stdinBuf' = [stdinBuf EXCEPT ![p] = <<>>]
                 /\ Return(c, "send", k, OkUnit)
            ELSE /\ UNCHANGED <<stdinBuf, stdinPipe>>
                 /\ Return(c, "send", k, ErrWrite)
    /\ lock' = "free"
    /\ UNCHANGED <<map, procState, procKey, killed, written, pipeOut, pipeErr,
                   rdOut, rdErr, wd, events, inj, limit, probeVars, otherVars>>

\* ------------------------------------------------------------------------
\* kill_pty_process
\* ------------------------------------------------------------------------
\* Variant of MapRemove: the entry is left in the map.
MapRemoveKeeps(m, k) == m

\* HashMap::remove
MapRemove(m, k) == [m EXCEPT ![k] = None]

\* processes.lock(); map.remove(&app_id): None returns Err; Some(p) is moved
\* out of the map and child.kill() sends it SIGKILL.  The guard stays alive.
KillLock(c, k) ==
    /\ CanCall(c)
    /\ lock = "free"
    /\ IF map[k] = None
       THEN /\ Return(c, "kill", k, ErrNotFound)
            /\ UNCHANGED <<map, lock, killed>>
       ELSE /\ map' = MapRemove(map, k)
            /\ killed' = [killed EXCEPT ![map[k]] = TRUE]
            /\ lock' = c
            /\ pc' = [pc EXCEPT ![c] = "kill_wait"]
            /\ local' = [local EXCEPT ![c] = [key |-> k, proc |-> map[k], input |-> <<>>]]
            /\ UNCHANGED <<ret, calls>>
    /\ UNCHANGED <<procState, procKey, written, pipeOut, pipeErr, stdinBuf, stdinPipe,
                   rdOut, rdErr, wd, events, inj, limit, probeVars, otherVars>>

\* Variant of KillWait: the child is not waited for.
KillNoWait(c) ==
    /\ pc[c] = "kill_wait"
    /\ events' = Emit(events, local[c].proc, "pty-terminated")
    /\ lock' = "free"
    /\ Return(c, "kill", local[c].key, OkUnit)
    /\ UNCHANGED <<map, procState, procKey, killed, written, pipeOut, pipeErr,
                   stdinBuf, stdinPipe, rdOut, rdErr, wd, inj, limit, probeVars, otherVars>>

\* child.wait() blocks until the child has exited; then
\* app.emit("pty-terminated", app_id); Ok(()) and the guard is dropped.
KillWait(c) ==
    /\ pc[c] = "kill_wait"
    /\ procState[local[c].proc] = "exited"
    /\ events' = Emit(events, local[c].proc, "pty-terminated")
    /\ lock' = "free"
    /\ Return(c, "kill", local[c].key, OkUnit)
    /\ UNCHANGED <<map, procState, procKey, killed, written, pipeOut, pipeErr,
                   stdinBuf, stdinPipe, rdOut, rdErr, wd, inj, limit, probeVars, otherVars>>

\* ------------------------------------------------------------------------
\* check_pty_process
\* ------------------------------------------------------------------------
\* The whole body runs under the lock and calls nothing that blocks.
CheckPty(c, k) ==
    /\ CanCall(c)
    /\ lock = "free"
    /\ IF map[k] = None
       THEN /\ Return(c, "check", k, "false")
            /\ UNCHANGED map
       ELSE \E r \in TryWait(map[k]) :
              IF r = "OkNone"
              THEN /\ Return(c, "check", k, "true")
                   /\ UNCHANGED map
              ELSE /\ map' = MapRemove(map, k)
                   /\ Return(c, "check", k, "false")
    /\ UNCHANGED <<lock, procState, procKey, killed, written, pipeOut, pipeErr,
                   stdinBuf, stdinPipe, rdOut, rdErr, wd, events, inj, limit, probeVars,
                   otherVars>>

\* ------------------------------------------------------------------------
\* The background threads of a session
\* ------------------------------------------------------------------------
\* Variant of WatchdogGone: the watchdog emits its terminal event although the
\* entry is gone.
WatchdogGoneEmits(p) ==
    /\ wd' = [wd EXCEPT ![p] = "done"]
    /\ events' = Emit(events, p, "pty-terminated")
    /\ UNCHANGED map

\* Watchdog, else branch of map.get_mut: "Process was removed externally".
WatchdogGone(p) ==
    /\ wd' = [wd EXCEPT ![p] = "done"]
    /\ UNCHANGED <<map, events>>

\* Variant of WatchdogFound: on exit the watchdog clears the whole map.
WatchdogFoundClears(p, q) ==
    \E r \in TryWait(q) :
       CASE r = "OkSome" -> /\ events' = Emit(events, q, "pty-terminated")
                            /\ map' = [k \in Keys |-> None]
                            /\ wd' = [wd EXCEPT ![p] = "done"]
         [] r = "OkNone" -> UNCHANGED <<map, events, wd>>
         [] r = "Err"    -> /\ map' = MapRemove(map, procKey[p])
                            /\ wd' = [wd EXCEPT ![p] = "done"]
                            /\ UNCHANGED events

\* Watchdog, the entry found under the thread's app_id holds child q.
WatchdogFound(p, q) ==
    \E r \in TryWait(q) :
       CASE r = "OkSome" -> /\ events' = Emit(events, q, "pty-terminated")
                            /\ map' = MapRemove(map, procKey[p])
                            /\ wd' = [wd EXCEPT ![p] = "done"]
         [] r = "OkNone" -> UNCHANGED <<map, events, wd>>
         [] r = "Err"    -> /\ map' = MapRemove(map, procKey[p])
                            /\ wd' = [wd EXCEPT ![p] = "done"]
                            /\ UNCHANGED events

\* One iteration of the watchdog loop after its sleep: lock, look the
\* thread's app_id up, try_wait, unlock.
WatchdogPoll(p) ==
    /\ wd[p] = "polling"
    /\ lock = "free"
    /\ IF map[procKey[p]] = None
       THEN WatchdogGone(p)
       ELSE WatchdogFound(p, map[procKey[p]])
    /\ UNCHANGED <<lock, procState, procKey, killed, written, pipeOut, pipeErr,
                   stdinBuf, stdinPipe, rdOut, rdErr, pc, local, ret, calls, inj, limit,
                   probeVars, otherVars>>

\* stdout reader: read() returns Ok(n), n > 0; the chunk holds a non-empty
\* line, which is emitted as pty-output.
ReadStdout(p) ==
    /\ rdOut[p] = "reading"
    /\ pipeOut[p] > 0
    /\ pipeOut' = [pipeOut EXCEPT ![p] = @ - 1]
    /\ events' = Emit(events, p, "pty-output")
    /\ UNCHANGED <<map, lock, procState, procKey, killed, written, pipeErr,
                   stdinBuf, stdinPipe, rdOut, rdErr, wd, pc, local, ret, calls, inj, limit,
                   probeVars, otherVars>>

\* stdout reader: read() returns Ok(0) (the pipe is empty and its writer has
\* exited), which breaks the loop.
ReadStdoutEnd(p) ==
    /\ rdOut[p] = "reading"
    /\ pipeOut[p] = 0
    /\ procState[p] = "exited"
    /\ rdOut' = [rdOut EXCEPT ![p] = "done"]
    /\ UNCHANGED <<map, lock, procState, procKey, killed, written, pipeOut, pipeErr,
                   stdinBuf, stdinPipe, rdErr, wd, events, pc, local, ret, calls, inj, limit,
                   probeVars, otherVars>>

\* stderr reader: reader.lines() yields Ok(line), emitted as pty-error.
ReadStderr(p) ==
    /\ rdErr[p] = "reading"
    /\ pipeErr[p] > 0
    /\ pipeErr' = [pipeErr EXCEPT ![p] = @ - 1]
    /\ events' = Emit(events, p, "pty-error")
    /\ UNCHANGED <<map, lock, procState, procKey, killed, written, pipeOut,
                   stdinBuf, stdinPipe, rdOut, rdErr, wd, pc, local, ret, calls, inj, limit,
                   probeVars, otherVars>>

\* stderr reader: lines() ends at end of stream.
ReadStderrEnd(p) ==
    /\ rdErr[p] = "reading"
    /\ pipeErr[p] = 0
    /\ procState[p] = "exited"
    /\ rdErr' = [rdErr EXCEPT ![p] = "done"]
    /\ UNCHANGED <<map, lock, procState, procKey, killed, written, pipeOut, pipeErr,
                   stdinBuf, stdinPipe, rdOut, wd, events, pc, local, ret, calls, inj, limit,
                   probeVars, otherVars>>

\* Variant of ReadStdoutErr: the failing reader takes the session's entry
\* and its watchdog down with it.
ReadStdoutErrTearsDown(p) ==
    /\ rdOut[p] = "reading"
    /\ rdOut' = [rdOut EXCEPT ![p] = "failed"]
    /\ map' = MapRemove(map, procKey[p])
    /\ wd' = [wd EXCEPT ![p] = "done"]
    /\ UNCHANGED <<lock, procState, procKey, killed, written, pipeOut, pipeErr,
                   stdinBuf, stdinPipe, rdErr, events, pc, local, ret, calls, inj, limit,
                   probeVars, otherVars>>

\* stdout reader: read() returns Err(e): eprintln!, break.  The thread holds
\* neither the map nor its lock; it ends, and what is left in the pipe is
\* never forwarded.
ReadStdoutErr(p) ==
    /\ rdOut[p] = "reading"
    /\ rdOut' = [rdOut EXCEPT ![p] = "failed"]
    /\ UNCHANGED <<map, lock, procState, procKey, killed, written, pipeOut, pipeErr,
                   stdinBuf, stdinPipe, rdErr, wd, events, pc, local, ret, calls, inj, limit,
                   probeVars, otherVars>>

\* stderr reader: reader.lines() yields Err (a line that is not UTF-8):
\* `if let Ok(line)` skips it, nothing is emitted, the loop goes on.
ReadStderrErr(p) ==
    /\ rdErr[p] = "reading"
    /\ pipeErr[p] > 0
    /\ pipeErr' = [pipeErr EXCEPT ![p] = @ - 1]
    /\ UNCHANGED <<map, lock, procState, procKey, killed, written, pipeOut,
                   stdinBuf, stdinPipe, rdOut, rdErr, wd, events, pc, local, ret, calls, inj,
                   limit, probeVars, otherVars>>

\* ------------------------------------------------------------------------
\* The child processes (the environment of the program)
\* ------------------------------------------------------------------------
\* A running child writes a chunk to stdout.
ProcWriteOut(p) ==
    /\ procState[p] = "running"
    /\ written[p] < MaxOut
    /\ written' = [written EXCEPT ![p] = @ + 1]
    /\ pipeOut' = [pipeOut EXCEPT ![p] = @ + 1]
    /\ UNCHANGED <<map, lock, procState, procKey, killed, pipeErr, stdinBuf, stdinPipe,
                   rdOut, rdErr, wd, events, pc, local, ret, calls, inj, limit, probeVars,
                   otherVars>>

\* A running child writes a line to stderr.
ProcWriteErr(p) ==
    /\ procState[p] = "running"
    /\ written[p] < MaxOut
    /\ written' = [written EXCEPT ![p] = @ + 1]
    /\ pipeErr' = [pipeErr EXCEPT ![p] = @ + 1]
    /\ UNCHANGED <<map, lock, procState, procKey, killed, pipeOut, stdinBuf, stdinPipe,
                   rdOut, rdErr, wd, events, pc, local, ret, calls, inj, limit, probeVars,
                   otherVars>>

\* A running child exits, on its own or because of the SIGKILL it was sent.
ProcExit(p) ==
    /\ procState[p] = "running"
    /\ procState' = [procState EXCEPT ![p] = "exited"]
    /\ UNCHANGED <<map, lock, procKey, killed, written, pipeOut, pipeErr, stdinBuf,
                   stdinPipe, rdOut, rdErr, wd, events, pc, local, ret, calls, inj, limit,
                   probeVars, otherVars>>

\* ------------------------------------------------------------------------
\* install_flatpak
\* ------------------------------------------------------------------------
\* spawn() succeeds; the confirmation thread, the two reader threads and the
\* thread that waits for the child are started; nothing is stored in
\* ProcessMap.  Ok(()).
InstallFlatpak(c, k) ==
    /\ CanCall(c)
    /\ procState' = [procState EXCEPT ![NewProc] = "running"]
    /\ procKey' = [procKey EXCEPT ![NewProc] = k]
    /\ rdOut' = [rdOut EXCEPT ![NewProc] = "reading"]
    /\ rdErr' = [rdErr EXCEPT ![NewProc] = "reading"]
    /\ wd' = [wd EXCEPT ![NewProc] = "waiting"]
    /\ inj' = [inj EXCEPT ![NewProc] = "sleeping"]
    /\ Return(c, "install", k, OkUnit)
    /\ UNCHANGED <<map, lock, killed, written, pipeOut, pipeErr, stdinBuf, stdinPipe,
                   events, limit, probeVars, otherVars>>

\* spawn() fails: the error is returned.
InstallSpawnFail(c, k) ==
    /\ CanCall(c)
    /\ Return(c, "install", k, ErrSpawn)
    /\ UNCHANGED <<map, lock, procState, procKey, killed, written, pipeOut, pipeErr,
                   stdinBuf, stdinPipe, rdOut, rdErr, wd, inj, events, limit, probeVars,
                   otherVars>>

\* Variant of InstallConfirm: the confirmation is written twice.
InstallConfirmTwice(p) ==
    /\ inj[p] = "sleeping"
    /\ \E ok \in IF procState[p] = "running" THEN {TRUE} ELSE BOOLEAN :
         IF ok
         THEN /\ stdinPipe' = [stdinPipe EXCEPT ![p] =
                                  @ \o WriteAll(stdinBuf[p], SendBytes(<<"y">>))
                                    \o SendBytes(<<"y">>)]
              /\ stdinBuf' = [stdinBuf EXCEPT ![p] = <<>>]
              /\ inj' = [inj EXCEPT ![p] = "written"]
         ELSE /\ inj' = [inj EXCEPT ![p] = "failed"]
              /\ UNCHANGED <<stdinBuf, stdinPipe>>
    /\ UNCHANGED <<map, lock, procState, procKey, killed, written, pipeOut, pipeErr,
                   rdOut, rdErr, wd, events, pc, local, ret, calls, limit, probeVars,
                   otherVars>>

\* The confirmation thread after its sleep of 1500 ms: write_all(b"y\n") and
\* flush(), both results dropped; then the thread ends. The write can fail
\* once the child has exited.
InstallConfirm(p) ==
    /\ inj[p] = "sleeping"
    /\ \E ok \in IF procState[p] = "running" THEN {TRUE} ELSE BOOLEAN :
         IF ok
         THEN /\ stdinPipe' = [stdinPipe EXCEPT ![p] =
                                  @ \o WriteAll(stdinBuf[p], SendBytes(<<"y">>))]
              /\ stdinBuf' = [stdinBuf EXCEPT ![p] = <<>>]
              /\ inj' = [inj EXCEPT ![p] = "written"]
         ELSE /\ inj' = [inj EXCEPT ![p] = "failed"]
              /\ UNCHANGED <<stdinBuf, stdinPipe>>
    /\ UNCHANGED <<map, lock, procState, procKey, killed, written, pipeOut, pipeErr,
                   rdOut, rdErr, wd, events, pc, local, ret, calls, limit, probeVars,
                   otherVars>>

\* The waiting thread: child.wait() returns once the child has exited; then
\* app.emit("pty-terminated", app_id).
InstallWait(p) ==
    /\ wd[p] = "waiting"
    /\ procState[p] = "exited"
    /\ events' = Emit(events, p, "pty-terminated")
    /\ wd' = [wd EXCEPT ![p] = "done"]
    /\ UNCHANGED <<map, lock, procState, procKey, killed, written, pipeOut, pipeErr,
                   stdinBuf, stdinPipe, rdOut, rdErr, inj, pc, local, ret, calls, limit,
                   probeVars, otherVars>>

\* ------------------------------------------------------------------------
\* get_install_dependencies: the two-phase probe
\* ------------------------------------------------------------------------
\* The lines the phase-2 child may print on stdout, as sequences of characters.
ProbeLines == { <<"1", ".", "a">>, <<" ", "2", "a", ".">>, <<"a", ".", "1">> }

Digits == {"0", "1", "2", "3", "4", "5", "6", "7", "8", "9"}
Whitespace == {" ", "\t", "\n", "\r"}

\* str::trim_start / str::trim
RECURSIVE TrimStart(_)
TrimStart(s) == IF s # <<>> /\ Head(s) \in Whitespace THEN TrimStart(Tail(s)) ELSE s

RECURSIVE TrimEnd(_)
TrimEnd(s) == IF s # <<>> /\ s[Len(s)] \in Whitespace
              THEN TrimEnd(SubSeq(s, 1, Len(s) - 1)) ELSE s

Trim(s) == TrimEnd(TrimStart(s))

\* trimmed.starts_with(|c| c.is_ascii_digit()) && trimmed.contains('.')
IsListEntry(line) ==
    LET trimmed == Trim(line)
    IN  /\ trimmed # <<>>
        /\ Head(trimmed) \in Digits
        /\ \E i \in 1..Len(trimmed) : trimmed[i] = "."

\* Command lines are sequences of shell tokens; a double quote is a token.
Quote == "\""

\* format!("flatpak install --user flathub {}", app_id)
base_cmd(app_id) == <<"flatpak", "install", "--user", "flathub", app_id>>

\* build_flatpak_interactive_cmd: script runs the install on a terminal of
\* its own and nothing is piped into it.
build_flatpak_interactive_cmd(flatpak, app_id) ==
    IF flatpak
    THEN <<"LANG=C", "script", "-q", "/dev/null", "-c", Quote, "flatpak-spawn", "--host">>
         \o base_cmd(app_id) \o <<Quote>>
    ELSE <<"LANG=C", "script", "-q", "/dev/null", "-c", Quote>>
         \o base_cmd(app_id) \o <<Quote>>

\* build_flatpak_install_cmd: printf "y\nn\n" is piped into script.
build_flatpak_install_cmd(flatpak, app_id) ==
    IF flatpak
    THEN <<"LANG=C", "printf", Quote, "y", "\\n", "n", "\\n", Quote, "|",
           "script", "-q", "/dev/null", "-c", Quote, "flatpak-spawn", "--host">>
         \o base_cmd(app_id) \o <<Quote>>
    ELSE <<"LANG=C", "printf", Quote, "y", "\\n", "n", "\\n", Quote, "|",
           "script", "-q", "/dev/null", "-c", Quote>>
         \o base_cmd(app_id) \o <<Quote>>

\* The app_id the probe is called with.
ProbeAppId == "org.app.a"

\* The phrase looked for in the phase-1 text, as a sequence of tokens.
RequiredRuntimeFor == <<"Required runtime ", "for">>

\* What phase 1 may capture as (output.stdout, output.stderr).
Phase1Outputs ==
    { <<<<"x">>, <<>>>>,
      <<<<"x", "Required runtime ", "for">>, <<"x">>>>,
      <<<<>>, <<"Required runtime ", "for", "x">>>>,
      <<<<"Required runtime ">>, <<"for">>>>,
      <<<<"for">>, <<"Required runtime ">>>> }

\* str::contains
Contains(text, pat) ==
    \E i \in 0..(Len(text) - Len(pat)) : SubSeq(text, i + 1, i + Len(pat)) = pat

\* format!("{}\n{}", stdout, stderr)
combined_first(out, err) == out \o <<NL>> \o err

\* Variant of NeedsRuntime: only the standard output is searched.
NeedsRuntimeStdoutOnly(out, err) == Contains(out, RequiredRuntimeFor)

\* combined_first.contains("Required runtime for")
NeedsRuntime(out, err) == Contains(combined_first(out, err), RequiredRuntimeFor)

ErrExecute == "Failed to execute flatpak"
ErrSpawnProcess == "Failed to spawn process"

ProbeInit ==
    /\ probePc = "phase1"
    /\ needs_runtime = FALSE
    /\ child = "none"
    /\ childKilled = FALSE
    /\ childWritten = 0
    /\ childOut = <<>>
    /\ childErr = 0
    /\ stdout_thread = "none"
    /\ stderr_thread = "none"
    /\ output_lines = <<>>
    /\ error_lines = 0
    /\ found_list = FALSE
    /\ elapsed = 0
    /\ loopExit = "none"
    /\ probeRet = "none"
    /\ pipeline = "none"
    /\ stdout = <<>>
    /\ stderr = <<>>
    /\ combined_output = <<>>
    /\ is_flatpak = FALSE
    /\ cmd_str = <<>>

\* Phase 1: shell.command("sh")...output().await; an error is returned with
\* `?`; otherwise needs_runtime decides between phase 2 and the parse of the
\* phase-1 text.
ProbePhase1(ok, o, f) ==
    /\ probePc = "phase1"
    /\ is_flatpak' = f
    /\ IF ok
       THEN /\ stdout' = o[1]
            /\ stderr' = o[2]
            /\ needs_runtime' = NeedsRuntime(o[1], o[2])
            /\ IF NeedsRuntime(o[1], o[2])
               THEN /\ probePc' = "spawn"
                    /\ UNCHANGED combined_output
               ELSE /\ probePc' = "parse"
                    /\ combined_output' = <<o[1], o[2]>>
            /\ UNCHANGED probeRet
       ELSE /\ probePc' = "done"
            /\ probeRet' = ErrExecute
            /\ UNCHANGED <<needs_runtime, stdout, stderr, combined_output>>
    /\ UNCHANGED <<child, childKilled, childWritten, childOut, childErr, stdout_thread,
                   stderr_thread, output_lines, error_lines, found_list, elapsed,
                   loopExit, pipeline, cmd_str, sessVars, otherVars>>

\* Phase 2: Command::new("sh").args(["-c", cmd_str])...spawn(); on success sh
\* runs the pipeline of cmd_str, the two reader threads are started and
\* `start` is taken; on failure the error is returned.
ProbeSpawn(ok, app_id) ==
    /\ probePc = "spawn"
    /\ IF ok
       THEN /\ cmd_str' = build_flatpak_install_cmd(is_flatpak, app_id)
            /\ child' = "running"
            /\ pipeline' = "running"
            /\ stdout_thread' = "reading"
            /\ stderr_thread' = "reading"
            /\ probePc' = "loop"
            /\ UNCHANGED probeRet
       ELSE /\ probePc' = "done"
            /\ probeRet' = ErrSpawnProcess
            /\ UNCHANGED <<cmd_str, child, pipeline, stdout_thread, stderr_thread>>
    /\ UNCHANGED <<needs_runtime, childKilled, childWritten, childOut, childErr,
                   output_lines, error_lines, found_list, elapsed, loopExit,
                   stdout, stderr, combined_output, is_flatpak, sessVars, otherVars>>

\* child.try_wait() of the wait loop, as TryWait.
ChildTryWait == IF child = "running" THEN {"OkNone"} ELSE {"OkSome", "Err"}

\* One evaluation of `while start.elapsed() < timeout { .. }`: only
\* Ok(Some(_)) of try_wait leaves the loop, anything else sleeps 100 ms.
ProbeLoop ==
    /\ probePc = "loop"
    /\ IF ~(elapsed < TimeoutTicks)
       THEN /\ loopExit' = "timeout"
            /\ probePc' = "kill"
            /\ UNCHANGED elapsed
       ELSE IF found_list
       THEN /\ elapsed' = elapsed + GraceTicks
            /\ loopExit' = "found"
            /\ probePc' = "kill"
       ELSE \E r \in ChildTryWait :
              IF r = "OkSome"
              THEN /\ loopExit' = "exited"
                   /\ probePc' = "kill"
                   /\ UNCHANGED elapsed
              ELSE /\ elapsed' = elapsed + PollTicks
                   /\ UNCHANGED <<loopExit, probePc>>
    /\ UNCHANGED <<needs_runtime, child, childKilled, childWritten, childOut, childErr,
                   stdout_thread, stderr_thread, output_lines, error_lines, found_list,
                   probeRet,
                   pipeline, stdout, stderr, combined_output,
                   is_flatpak, cmd_str, sessVars, otherVars>>

\* let _ = child.kill(): SIGKILL is sent; the child dies of it asynchronously.
ProbeKill ==
    /\ probePc = "kill"
    /\ childKilled' = TRUE
    /\ probePc' = "join"
    /\ UNCHANGED <<needs_runtime, child, childWritten, childOut, childErr, stdout_thread,
                   stderr_thread, output_lines, error_lines, found_list, elapsed,
                   loopExit, probeRet,
                   pipeline, stdout, stderr, combined_output,
                   is_flatpak, cmd_str, sessVars, otherVars>>

\* Variant of ProbeJoin: the reader threads are not joined.
ProbeJoinDetached ==
    /\ probePc = "join"
    /\ probePc' = "parse"
    /\ combined_output' = <<output_lines, error_lines>>
    /\ UNCHANGED <<needs_runtime, child, childKilled, childWritten, childOut, childErr,
                   stdout_thread, stderr_thread, output_lines, error_lines, found_list,
                   elapsed, loopExit, probeRet, pipeline, stdout, stderr,
                   is_flatpak, cmd_str, sessVars, otherVars>>

\* stdout_thread.join(); stderr_thread.join(): both block until the thread
\* has read end of stream; then (out, err) is taken from the collected lines.
ProbeJoin ==
    /\ probePc = "join"
    /\ stdout_thread = "done"
    /\ stderr_thread = "done"
    /\ probePc' = "parse"
    /\ combined_output' = <<output_lines, error_lines>>
    /\ UNCHANGED <<needs_runtime, child, childKilled, childWritten, childOut, childErr,
                   stdout_thread, stderr_thread, output_lines, error_lines, found_list,
                   elapsed, loopExit, probeRet, pipeline, stdout, stderr,
                   is_flatpak, cmd_str, sessVars, otherVars>>

\* The parse of the captured text and Ok(result).
ProbeReturn ==
    /\ probePc = "parse"
    /\ probePc' = "done"
    /\ probeRet' = "Ok"
    /\ UNCHANGED <<needs_runtime, child, childKilled, childWritten, childOut, childErr,
                   stdout_thread, stderr_thread, output_lines, error_lines, found_list,
                   elapsed, loopExit,
                   pipeline, stdout, stderr, combined_output,
                   is_flatpak, cmd_str, sessVars, otherVars>>

\* stdout_thread: reader.lines() yields a line; it is pushed to output_lines
\* and found_list is set once a list entry has been seen.
ProbeReadOut ==
    /\ stdout_thread = "reading"
    /\ childOut # <<>>
    /\ output_lines' = Append(output_lines, Head(childOut))
    /\ childOut' = Tail(childOut)
    /\ found_list' = (found_list \/ IsListEntry(Head(childOut)))
    /\ UNCHANGED <<probePc, needs_runtime, child, childKilled, childWritten, childErr,
                   stdout_thread, stderr_thread, error_lines, elapsed, loopExit,
                   probeRet,
                   pipeline, stdout, stderr, combined_output,
                   is_flatpak, cmd_str, sessVars, otherVars>>

\* stdout_thread: end of stream, the thread ends. The stream ends when every
\* process holding the write end of the pipe (sh and the commands of its
\* pipeline) has exited.
ProbeReadOutEnd ==
    /\ stdout_thread = "reading"
    /\ childOut = <<>>
    /\ child = "exited"
    /\ pipeline = "exited"
    /\ stdout_thread' = "done"
    /\ UNCHANGED <<probePc, needs_runtime, child, childKilled, childWritten, childOut,
                   childErr, stderr_thread, output_lines, error_lines, found_list,
                   elapsed, loopExit, probeRet,
                   pipeline, stdout, stderr, combined_output,
                   is_flatpak, cmd_str, sessVars, otherVars>>

\* stderr_thread: a line is pushed to error_lines.
ProbeReadErr ==
    /\ stderr_thread = "reading"
    /\ childErr > 0
    /\ childErr' = childErr - 1
    /\ error_lines' = error_lines + 1
    /\ UNCHANGED <<probePc, needs_runtime, child, childKilled, childWritten, childOut,
                   stdout_thread, stderr_thread, output_lines, found_list, elapsed,
                   loopExit, probeRet,
                   pipeline, stdout, stderr, combined_output,
                   is_flatpak, cmd_str, sessVars, otherVars>>

\* stderr_thread: end of stream, the thread ends.
ProbeReadErrEnd ==
    /\ stderr_thread = "reading"
    /\ childErr = 0
    /\ child = "exited"
    /\ pipeline = "exited"
    /\ stderr_thread' = "done"
    /\ UNCHANGED <<probePc, needs_runtime, child, childKilled, childWritten, childOut,
                   childErr, stdout_thread, output_lines, error_lines, found_list,
                   elapsed, loopExit, probeRet,
                   pipeline, stdout, stderr, combined_output,
                   is_flatpak, cmd_str, sessVars, otherVars>>

\* The running pipeline prints a line on stdout.
ChildWriteOut(line) ==
    /\ pipeline = "running"
    /\ childWritten < MaxProbeLines
    /\ childWritten' = childWritten + 1
    /\ childOut' = Append(childOut, line)
    /\ UNCHANGED <<probePc, needs_runtime, child, childKilled, childErr, stdout_thread,
                   stderr_thread, output_lines, error_lines, found_list, elapsed,
                   loopExit, probeRet,
                   pipeline, stdout, stderr, combined_output,
                   is_flatpak, cmd_str, sessVars, otherVars>>

\* The running pipeline prints a line on stderr.
ChildWriteErr ==
    /\ pipeline = "running"
    /\ childWritten < MaxProbeLines
    /\ childWritten' = childWritten + 1
    /\ childErr' = childErr + 1
    /\ UNCHANGED <<probePc, needs_runtime, child, childKilled, childOut, stdout_thread,
                   stderr_thread, output_lines, error_lines, found_list, elapsed,
                   loopExit, probeRet,
                   pipeline, stdout, stderr, combined_output,
                   is_flatpak, cmd_str, sessVars, otherVars>>

\* sh exits: on its own once the pipeline it waits for has ended, or because
\* of the SIGKILL it was sent.
ChildExit ==
    /\ child = "running"
    /\ pipeline = "exited" \/ childKilled
    /\ child' = "exited"
    /\ UNCHANGED <<probePc, needs_runtime, childKilled, childWritten, childOut, childErr,
                   stdout_thread, stderr_thread, output_lines, error_lines, found_list,
                   elapsed, loopExit, probeRet, pipeline, stdout, stderr,
                   combined_output,
                   is_flatpak, cmd_str, sessVars, otherVars>>

\* The commands of the pipeline end on their own. child.kill() signals sh
\* only, so nothing the call does makes this step happen.
PipelineExit ==
    /\ pipeline = "running"
    /\ pipeline' = "exited"
    /\ UNCHANGED <<probePc, needs_runtime, child, childKilled, childWritten, childOut,
                   childErr, stdout_thread, stderr_thread, output_lines, error_lines,
                   found_list, elapsed, loopExit, probeRet, stdout, stderr,
                   combined_output,
                   is_flatpak, cmd_str, sessVars, otherVars>>

\* ------------------------------------------------------------------------
\* The stdout and stderr relay threads of a session
\* (start_flatpak_interactive and install_flatpak have the same two threads)
\* ------------------------------------------------------------------------
\* let mut buffer = [0u8; 1024]
BufferSize == 1024

\* The bytes a child may write to stdout. They are ASCII, for which
\* String::from_utf8_lossy gives back the same characters.
Bytes == {"a", "\r", "\n"}

\* The lines a child may write to stderr.
ErrLines == {<<"a">>, <<"b">>}

SeqsUpTo(S, n) == UNION {[1..k -> S] : k \in 0..n}

\* The state of the relay while no session is followed.
RelayIdle ==
    /\ stdoutBytes = <<>>
    /\ stdoutPos = 0
    /\ chunk = <<>>
    /\ stdout_reader = "done"
    /\ stderrLines = <<>>
    /\ stderrPos = 0
    /\ stderr_reader = "done"
    /\ relayEvents = <<>>

\* The two threads have just been started on a child that will write
\* stdoutBytes and stderrLines.
RelayInit ==
    /\ stdoutBytes \in SeqsUpTo(Bytes, MaxRelayLen)
    /\ stderrLines \in SeqsUpTo(ErrLines, MaxRelayLen - Len(stdoutBytes))
    /\ stdoutPos = 0
    /\ chunk = <<>>
    /\ stdout_reader = "reading"
    /\ stderrPos = 0
    /\ stderr_reader = "reading"
    /\ relayEvents = <<>>

\* Variant of Split: a carriage return separates, too.
RECURSIVE SplitAlsoCR(_, _)
SplitAlsoCR(s, sep) ==
    IF \E i \in 1..Len(s) : s[i] \in {sep, "\r"}
    THEN LET i == CHOOSE i \in 1..Len(s) :
                    /\ s[i] \in {sep, "\r"}
                    /\ \A j \in 1..(i - 1) : s[j] \notin {sep, "\r"}
         IN  <<SubSeq(s, 1, i - 1)>> \o SplitAlsoCR(SubSeq(s, i + 1, Len(s)), sep)
    ELSE <<s>>

\* str::split(sep): the pieces between the separators, empty ones included.
RECURSIVE Split(_, _)
Split(s, sep) ==
    IF \E i \in 1..Len(s) : s[i] = sep
    THEN LET i == CHOOSE i \in 1..Len(s) :
                    /\ s[i] = sep
                    /\ \A j \in 1..(i - 1) : s[j] # sep
         IN  <<SubSeq(s, 1, i - 1)>> \o Split(SubSeq(s, i + 1, Len(s)), sep)
    ELSE <<s>>

\* Variant of RelayEmit: the event is put in front of the earlier ones.
RelayEmitFirst(evs, name, text) == <<<<name, text>>>> \o evs

\* app.emit(name, (app_id, text))
RelayEmit(evs, name, text) == Append(evs, <<name, text>>)

\* for line in chunk.split('\n') { if !line.is_empty() { emit("pty-output") } }
RECURSIVE EmitLines(_, _)
EmitLines(evs, lines) ==
    IF lines = <<>> THEN evs
    ELSE EmitLines(IF Head(lines) # <<>> THEN RelayEmit(evs, "pty-output", Head(lines))
                   ELSE evs,
                   Tail(lines))

\* stdout thread: read(&mut buffer) returns Ok(n) with 0 < n <= 1024 bytes of
\* what the child has written; the chunk is split and its lines are emitted.
RelayReadStdout(n) ==
    /\ stdout_reader = "reading"
    /\ n >= 1
    /\ n <= BufferSize
    /\ stdoutPos + n <= Len(stdoutBytes)
    /\ chunk' = SubSeq(stdoutBytes, stdoutPos + 1, stdoutPos + n)
    /\ stdoutPos' = stdoutPos + n
    /\ relayEvents' = EmitLines(relayEvents, Split(chunk', NL))
    /\ UNCHANGED <<stdoutBytes, stdout_reader, stderrLines, stderrPos, stderr_reader,
                   sessVars, probeVars, runVars, pureVars>>

\* stdout thread: read returns Ok(0), end of stream.
RelayStdoutEnd ==
    /\ stdout_reader = "reading"
    /\ stdoutPos = Len(stdoutBytes)
    /\ stdout_reader' = "done"
    /\ UNCHANGED <<stdoutBytes, stdoutPos, chunk, stderrLines, stderrPos, stderr_reader,
                   relayEvents, sessVars, probeVars, runVars, pureVars>>

\* stderr thread: reader.lines() yields the next line, emitted as pty-error.
RelayReadStderr ==
    /\ stderr_reader = "reading"
    /\ stderrPos < Len(stderrLines)
    /\ stderrPos' = stderrPos + 1
    /\ relayEvents' = RelayEmit(relayEvents, "pty-error", stderrLines[stderrPos + 1])
    /\ UNCHANGED <<stdoutBytes, stdoutPos, chunk, stdout_reader, stderrLines,
                   stderr_reader, sessVars, probeVars, runVars, pureVars>>

\* stderr thread: lines() ends at end of stream.
RelayStderrEnd ==
    /\ stderr_reader = "reading"
    /\ stderrPos = Len(stderrLines)
    /\ stderr_reader' = "done"
    /\ UNCHANGED <<stdoutBytes, stdoutPos, chunk, stdout_reader, stderrLines, stderrPos,
                   relayEvents, sessVars, probeVars, runVars, pureVars>>

\* ------------------------------------------------------------------------
\* The streaming run-to-completion commands: update_flatpak,
\* update_system_flatpaks, uninstall_flatpak, install_extension,
\* uninstall_extension (all five have the same body)
\* ------------------------------------------------------------------------
RunOps == {"update_flatpak", "update_system_flatpaks", "uninstall_flatpak",
           "install_extension", "uninstall_extension"}

\* The text of the install-output event a command emits first.
Announce(op) ==
    CASE op = "update_flatpak" -> "Iniciando actualizacion de {}..."
      [] op = "update_system_flatpaks" -> "Iniciando actualizacion de paquetes del sistema..."
      [] op = "uninstall_flatpak" -> "Iniciando desinstalacion de {}..."
      [] op = "install_extension" -> "Installing extension {}..."
      [] op = "uninstall_extension" -> "Uninstalling extension {}..."

\* Option<i32> is a sequence of at most one integer.
ExitCodes == {<<>>, <<0>>, <<1>>}

\* Variant of UnwrapOr: a missing value is reported as 0.
UnwrapOrZero(opt, d) == IF opt = <<>> THEN 0 ELSE opt[1]

\* Option::unwrap_or
UnwrapOr(opt, d) == IF opt = <<>> THEN d ELSE opt[1]

\* What rx.recv() may return before the channel closes.
CommandEvents ==
    {<<"Stdout", <<"x">>>>, <<"Stderr", <<"x">>>>, <<"Error", <<"x">>>>,
     <<"Other", <<>>>>}
    \cup {<<"Terminated", code>> : code \in ExitCodes}

ErrEmit == "Failed to emit"
ErrEmitEvent == "Failed to emit event"
ErrEmitError == "Failed to emit error"
ErrEmitCompletion == "Failed to emit completion"
ErrSpawnFlatpak == "Failed to spawn flatpak"
ErrSpawnFlatpakSpawn == "Failed to spawn flatpak-spawn"

RunInit ==
    /\ runOp = ""
    /\ runPc = "idle"
    /\ event = <<"none", <<>>>>
    /\ runRecv = 0
    /\ runEvents = <<>>
    /\ runRet = "none"

\* The command is invoked: app.emit("install-output", <announcement>) with
\* map_err(..)?.
RunStart(op, emitted) ==
    /\ runPc = "idle"
    /\ runOp' = op
    /\ IF emitted
       THEN /\ runEvents' = Append(runEvents, <<"install-output", Announce(op)>>)
            /\ runPc' = "spawn"
            /\ UNCHANGED runRet
       ELSE /\ runPc' = "done"
            /\ runRet' = ErrEmit
            /\ UNCHANGED runEvents
    /\ UNCHANGED <<event, runRecv, sessVars, probeVars, relayVars, pureVars>>

\* Variant of RunSpawn: a failed spawn is reported by an install-error event
\* and the command returns Ok(()).
RunSpawnEmitsError(flatpak, ok) ==
    /\ runPc = "spawn"
    /\ IF ok
       THEN /\ runPc' = "recv"
            /\ UNCHANGED <<runRet, runEvents>>
       ELSE /\ runPc' = "done"
            /\ runEvents' = Append(runEvents, <<"install-error", "x">>)
            /\ runRet' = "Ok"
    /\ UNCHANGED <<runOp, event, runRecv, sessVars, probeVars, relayVars, pureVars>>

\* is_flatpak is read and shell.command(..).args(..).spawn() is called with
\* map_err(..)?: a failure is returned to the caller.
RunSpawn(flatpak, ok) ==
    /\ runPc = "spawn"
    /\ IF ok
       THEN /\ runPc' = "recv"
            /\ UNCHANGED runRet
       ELSE /\ runPc' = "done"
            /\ runRet' = IF flatpak THEN ErrSpawnFlatpakSpawn ELSE ErrSpawnFlatpak
    /\ UNCHANGED <<runOp, event, runRecv, runEvents, sessVars, probeVars, relayVars, pureVars>>

\* One turn of `while let Some(event) = rx.recv().await { match event .. }`;
\* every app.emit has map_err(..)?, so a failed emit returns its error.
RunRecv(ev, emitted) ==
    /\ runPc = "recv"
    /\ ev[1] = "Terminated" \/ runRecv < MaxRunEvents
    /\ event' = ev
    /\ runRecv' = runRecv + 1
    /\ CASE ev[1] \in {"Stdout", "Stderr"} ->
              IF emitted
              THEN /\ runEvents' = Append(runEvents, <<"install-output", ev[2][1]>>)
                   /\ UNCHANGED <<runPc, runRet>>
              ELSE /\ runPc' = "done"
                   /\ runRet' = ErrEmitEvent
                   /\ UNCHANGED runEvents
         [] ev[1] = "Error" ->
              IF emitted
              THEN /\ runEvents' = Append(runEvents, <<"install-error", ev[2][1]>>)
                   /\ UNCHANGED <<runPc, runRet>>
              ELSE /\ runPc' = "done"
                   /\ runRet' = ErrEmitError
                   /\ UNCHANGED runEvents
         [] ev[1] = "Terminated" ->
              IF emitted
              THEN /\ runEvents' = Append(runEvents,
                                          <<"install-completed", UnwrapOr(ev[2], -1)>>)
                   /\ runPc' = "done"
                   /\ runRet' = "Ok"
              ELSE /\ runPc' = "done"
                   /\ runRet' = ErrEmitCompletion
                   /\ UNCHANGED runEvents
         [] OTHER -> UNCHANGED <<runPc, runRet, runEvents>>
    /\ UNCHANGED <<runOp, sessVars, probeVars, relayVars, pureVars>>

\* rx.recv() returns None (the channel is closed): the loop ends, Ok(()).
RunClosed ==
    /\ runPc = "recv"
    /\ runPc' = "done"
    /\ runRet' = "Ok"
    /\ UNCHANGED <<runOp, event, runRecv, runEvents, sessVars, probeVars, relayVars, pureVars>>

\* ------------------------------------------------------------------------
\* The command line of every operation that runs flatpak, as the tokens of
\* the program followed by its arguments (for sh -c, by the shell line)
\* ------------------------------------------------------------------------
CmdArgs == {"org.app.a", "org.app.b", "org.app.a.Plugin", "com.c.d", "x"}

\* Variant of launch_flatpak_cmd: the sandboxed command omits --host.
launch_flatpak_cmd_no_host(flatpak, app_id) ==
    IF flatpak
    THEN <<"flatpak-spawn", "flatpak", "run", app_id>>
    ELSE <<"flatpak", "run", app_id>>

launch_flatpak_cmd(flatpak, app_id) ==
    IF flatpak
    THEN <<"flatpak-spawn", "--host", "flatpak", "run", app_id>>
    ELSE <<"flatpak", "run", app_id>>

CmdOps == {"install_flatpak", "get_install_dependencies:1", "get_install_dependencies:2",
           "get_installed_flatpaks", "get_available_updates", "update_flatpak",
           "update_system_flatpaks", "launch_flatpak", "uninstall_flatpak",
           "get_app_remote_metadata", "get_installable_extensions",
           "install_extension", "uninstall_extension"}

\* The command line operation op runs for argument arg, each with the two
\* branches of its source (install_flatpak stands for
\* start_flatpak_interactive too, which builds the same command).
CommandFor(flatpak, op, arg) ==
    CASE op = "install_flatpak" ->
             <<"sh", "-c">> \o build_flatpak_interactive_cmd(flatpak, arg)
      [] op = "get_install_dependencies:1" ->
             IF flatpak
             THEN <<"sh", "-c", "LANG=C", "echo", "n", "|", "flatpak-spawn", "--host",
                    "flatpak", "install", "--user", "flathub", arg>>
             ELSE <<"sh", "-c", "LANG=C", "echo", "n", "|",
                    "flatpak", "install", "--user", "flathub", arg>>
      [] op = "get_install_dependencies:2" ->
             <<"sh", "-c">> \o build_flatpak_install_cmd(flatpak, arg)
      [] op = "get_installed_flatpaks" ->
             IF flatpak
             THEN <<"flatpak-spawn", "--host", "flatpak", "list",
                    "--columns=application,name,version,description,options,ref">>
             ELSE <<"flatpak", "list",
                    "--columns=application,name,version,description,options,ref">>
      [] op = "get_available_updates" ->
             IF flatpak
             THEN <<"flatpak-spawn", "--host", "flatpak", "remote-ls", "--updates",
                    "--columns=application,version,branch">>
             ELSE <<"flatpak", "remote-ls", "--updates",
                    "--columns=application,version,branch">>
      [] op = "update_flatpak" ->
             IF flatpak
             THEN <<"flatpak-spawn", "--host", "flatpak", "update", "-y", arg>>
             ELSE <<"flatpak", "update", "-y", arg>>
      [] op = "update_system_flatpaks" ->
             IF flatpak
             THEN <<"flatpak-spawn", "--host", "flatpak", "update", "-y">>
             ELSE <<"flatpak", "update", "-y">>
      [] op = "launch_flatpak" -> launch_flatpak_cmd(flatpak, arg)
      [] op = "uninstall_flatpak" ->
             IF flatpak
             THEN <<"flatpak-spawn", "--host", "flatpak", "uninstall", "-y", arg>>
             ELSE <<"flatpak", "uninstall", "-y", arg>>
      [] op = "get_app_remote_metadata" ->
             IF flatpak
             THEN <<"flatpak-spawn", "--host", "flatpak", "remote-info", "--user",
                    "--show-metadata", "flathub", arg>>
             ELSE <<"flatpak", "remote-info", "--user", "--show-metadata", "flathub", arg>>
      [] op = "get_installable_extensions" ->
             IF flatpak
             THEN <<"flatpak-spawn", "--host", "flatpak", "search",
                    "--columns=application,name", arg>>
             ELSE <<"flatpak", "search", "--columns=application,name", arg>>
      [] op = "install_extension" ->
             IF flatpak
             THEN <<"flatpak-spawn", "--host", "flatpak", "install", "-y", "--user",
                    "flathub", arg>>
             ELSE <<"flatpak", "install", "-y", "--user", "flathub", arg>>
      [] op = "uninstall_extension" ->
             IF flatpak
             THEN <<"flatpak-spawn", "--host", "flatpak", "uninstall", "-y", arg>>
             ELSE <<"flatpak", "uninstall", "-y", arg>>

\* An operation reads FLATPAK_ID and builds its command line.
CmdBuild(flatpak, op, arg) ==
    /\ cmdOp' = op
    /\ cmdArg' = arg
    /\ cmdFlatpak' = flatpak
    /\ cmdLine' = CommandFor(flatpak, op, arg)
    /\ UNCHANGED exceptCmd

\* ------------------------------------------------------------------------
\* get_installed_flatpaks: the classifier of the rows of flatpak list.
\* A text is the sequence of its pieces: a word, or one of the characters
\* the code looks at (".", ",", a tab, a space).
\* ------------------------------------------------------------------------
TAB == "\t"

RECURSIVE Join(_, _)
Join(cols, sep) ==
    IF Len(cols) = 0 THEN <<>>
    ELSE IF Len(cols) = 1 THEN cols[1]
    ELSE cols[1] \o <<sep>> \o Join(Tail(cols), sep)

Firefox == <<"org", ".", "mozilla", ".", "firefox">>
Freedesktop == <<"org", ".", "freedesktop">>
UserCurrent == <<"user", ",", "current">>
UserRuntime == <<"user", ",", "runtime">>

\* The rows flatpak list may print (application, name, version,
\* description, options, ref), a row that lacks a column, one with a
\* column more, and a blank line.
ListRows ==
    { Join(<<Firefox, <<"Firefox">>, <<"1">>, <<"Browser">>, UserCurrent, <<"r1">>>>, TAB),
      Join(<<Freedesktop, <<"Fd">>, <<"1">>, <<>>, <<"system", ",", "current">>, <<"r2">>>>, TAB),
      Join(<<Firefox \o <<".", "Locale">>, <<"Loc">>, <<"1">>, <<>>, UserRuntime, <<"r3">>>>, TAB),
      Join(<<Firefox \o <<"y">>, <<"Fy">>, <<"2">>, <<>>, <<" ", "user", ",", "runtime">>,
             <<"r4">>>>, TAB),
      Join(<<Freedesktop \o <<".", "Platform", ".", "GL", ".", "default">>, <<"GL">>, <<"1">>,
             <<>>, UserRuntime, <<"r5">>>>, TAB),
      Join(<<<<"org", ".", "kde", ".", "Platform">>, <<"KDE">>, <<"6">>, <<>>,
             <<"system", ",", "runtime">>, <<"r6">>>>, TAB),
      Join(<<<<"org", ".", "gnome", ".", "Platform", ".", "codecs">>, <<"Codecs">>, <<"1">>,
             <<>>, UserRuntime, <<"r7">>, <<"extra">>>>, TAB),
      Join(<<<<"com", ".", "short">>, <<"Short">>, <<"1">>, <<>>, UserCurrent>>, TAB),
      <<" ">> }

\* Some(segment) is <<segment>>, None is <<>>.
extract_developer_second(app_id) ==
    LET parts == Split(app_id, ".")
    IN  IF Len(parts) >= 2 THEN <<parts[2]>> ELSE <<>>

extract_developer(app_id) ==
    LET parts == Split(app_id, ".")
    IN  IF Len(parts) >= 2 THEN <<parts[Len(parts) - 1]>> ELSE <<>>

starts_with(s, p) == Len(p) <= Len(s) /\ SubSeq(s, 1, Len(p)) = p

is_runtime_only(options) == options = <<"runtime">>

is_runtime(options) == Contains(options, <<"runtime">>)

SystemExtensionPatterns ==
    { <<"org", ".", "freedesktop", ".", "Platform", ".">>,
      <<"org", ".", "freedesktop", ".", "Sdk", ".">>,
      <<".", "Platform", ".", "GL32">>,
      <<".", "Platform", ".", "VAAPI">>,
      <<".", "Platform", ".", "Compat", ".", "i386">>,
      <<".", "Platform", ".", "codecs">> }

is_system_extension_drivers(app_id) ==
    \E p \in SystemExtensionPatterns \ {<<"org", ".", "freedesktop", ".", "Platform", ".">>} :
        Contains(app_id, p)

is_system_extension(app_id) == \E p \in SystemExtensionPatterns : Contains(app_id, p)

NoPackages == [apps |-> <<>>, runtimes |-> <<>>, potential_extensions |-> <<>>]

\* One iteration of the first pass.
FirstPassLine(acc, line) ==
    IF Trim(line) = <<>>
    THEN acc
    ELSE LET parts == Split(line, TAB)
         IN  IF Len(parts) >= 6
             THEN LET app_id == Trim(parts[1])
                      options == Trim(parts[5])
                      ref_full == Trim(parts[6])
                  IN  IF is_runtime(options)
                      THEN IF ~is_system_extension(app_id)
                           THEN [acc EXCEPT !.potential_extensions =
                                    Append(@, <<app_id, Trim(parts[2]), Trim(parts[3]), ref_full>>)]
                           ELSE [acc EXCEPT !.runtimes = Append(@, ref_full)]
                      ELSE [acc EXCEPT !.apps =
                               Append(@, [app_id |-> app_id,
                                          name |-> Trim(parts[2]),
                                          version |-> Trim(parts[3]),
                                          summary |-> IF Trim(parts[4]) # <<>>
                                                      THEN <<Trim(parts[4])>> ELSE <<>>,
                                          developer |-> extract_developer(app_id)])]
             ELSE acc

RECURSIVE FirstPass(_, _)
FirstPass(lines, acc) ==
    IF lines = <<>> THEN acc ELSE FirstPass(Tail(lines), FirstPassLine(acc, Head(lines)))

is_parent_on_segment(ext_id, app_id) ==
    starts_with(ext_id, app_id \o <<".">>)

is_parent(ext_id, app_id) == starts_with(ext_id, app_id) /\ ext_id # app_id

\* The second pass: each potential extension goes to the first app that
\* is its parent, or to the runtimes.
RECURSIVE SecondPass(_, _, _, _)
SecondPass(potential_extensions, apps, runtimes, extensions) ==
    IF potential_extensions = <<>>
    THEN [apps |-> apps, runtimes |-> runtimes, extensions |-> extensions]
    ELSE LET ext == Head(potential_extensions)
             parents == {k \in 1..Len(apps) : is_parent(ext[1], apps[k].app_id)}
         IN  IF parents # {}
             THEN LET k == CHOOSE k \in parents : \A j \in parents : k <= j
                  IN  SecondPass(Tail(potential_extensions), apps, runtimes,
                                 Append(extensions, [extension_id |-> ext[1],
                                                     name |-> ext[2],
                                                     version |-> ext[3],
                                                     parent_app_id |-> apps[k].app_id]))
             ELSE SecondPass(Tail(potential_extensions), apps, Append(runtimes, ext[4]),
                             extensions)

\* Variant of installed_packages: the second pass is left out.
installed_packages_first_pass(lines) ==
    LET first == FirstPass(lines, NoPackages)
    IN  [apps |-> first.apps, runtimes |-> first.runtimes, extensions |-> <<>>]

installed_packages(lines) ==
    LET first == FirstPass(lines, NoPackages)
    IN  SecondPass(first.potential_extensions, first.apps, first.runtimes, <<>>)

\* get_installed_flatpaks reads the lines flatpak list printed.
ListRun(lines) ==
    /\ ~listDone
    /\ listDone' = TRUE
    /\ listLines' = lines
    /\ listOut' = installed_packages(lines)
    /\ UNCHANGED exceptList

\* ------------------------------------------------------------------------
\* extract_developer on its own
\* ------------------------------------------------------------------------
KliaStore == <<"io", ".", "github", ".", "N3kosempai", ".", "klia-store">>

\* The identifiers: all texts of up to MaxIdLen pieces, and the examples.
DevIds == SeqsUpTo({"a", "b", "."}, MaxIdLen) \cup {KliaStore, Firefox, <<"single">>}

DevRun(app_id) ==
    /\ ~devDone
    /\ devDone' = TRUE
    /\ devId' = app_id
    /\ devOut' = extract_developer(app_id)
    /\ UNCHANGED exceptDev

\* ------------------------------------------------------------------------
\* get_install_dependencies: the parser of the captured output.
\* A digit at the start of a word is a piece of its own, and so are "<",
\* "(", ")" and the annotations the code removes.
\* ------------------------------------------------------------------------
NBSP == "nbsp"
DepAppId == <<"org.app.a">>
KdePlatform == <<"org.kde.Platform">>
KdeRef == <<"org.kde.Platform/x86_64/5.15-23.08">>
Unknown == <<"Unknown">>

\* Lines of the combined output of flatpak install.
DepLines ==
    { RequiredRuntimeFor \o <<" ", "org.app.a/x86_64/stable", " ", "(runtime/">> \o KdeRef
          \o <<")", " ", "found">>,
      RequiredRuntimeFor \o <<" ", "org.app.a/x86_64/stable">>,
      <<"1", ".", " ">> \o KdePlatform
          \o <<" ", "5", ".15-23.08", " ", "i", " ", "flathub", " ", "<", " ", "3", "46,1",
               " ", "MB">>,
      <<" ", "2", ".", TAB>> \o DepAppId
          \o <<TAB, "stable", NBSP, "i", TAB, "flathub", TAB, "2", ",2", NBSP, "MB", " ",
               "(partial)">>,
      <<"1", "0", ".", " ", "org.c.d", " ", "stable", " ", "i", " ", "flathub", " ", "1",
        " ", "kB">>,
      <<"3", ".", " ", "org.e.f", " ", "stable", " ", "i">>,
      <<"4", ".", " ", "org.g.h", " ", "stable", " ", "i", " ", "flathub">>,
      <<"Looking for matches">>,
      <<" ">> }

RECURSIVE Replace(_, _, _)
Replace(s, from, to) ==
    IF s = <<>> THEN <<>>
    ELSE (IF Head(s) = from THEN to ELSE <<Head(s)>>) \o Replace(Tail(s), from, to)

is_size_part(p) ==
    \/ p = <<"<">>
    \/ p # <<>> /\ Head(p) \in Digits
    \/ p = <<"MB">>
    \/ p = <<"GB">>
    \/ p = <<"kB">>
    \/ p = <<"B">>

\* for i in 4..parts.len(), with the index counted from 1
RECURSIVE size_parts(_, _, _, _)
size_parts(parts, i, found_size_start, acc) ==
    IF i > Len(parts) THEN acc
    ELSE IF is_size_part(parts[i]) THEN size_parts(parts, i + 1, TRUE, Append(acc, parts[i]))
    ELSE IF found_size_start THEN acc
    ELSE size_parts(parts, i + 1, FALSE, acc)

size_clean(parts) ==
    LET size_raw == Join(size_parts(parts, 5, FALSE, <<>>), " ")
    IN  Trim(Replace(Replace(Replace(size_raw, "<", <<>>), "(parcial)", <<>>),
                     "(partial)", <<>>))

NonEmpty(p) == p # <<>>

\* The parts of a line: normalized, split on spaces, the empty ones
\* filtered out.
line_parts(line) ==
    LET normalized == Replace(Replace(line, NBSP, <<" ">>), TAB, <<" ">>)
    IN  SelectSeq(Split(normalized, " "), NonEmpty)

Dependency(name, size) == [name |-> name, download_size |-> size, installed_size |-> size]

NoDependencies == [dependencies |-> <<>>, app_main |-> <<>>, required_runtime |-> <<>>]

\* strip_prefix of one digit, then starts_with('.')
is_numbered(trimmed) ==
    /\ trimmed # <<>>
    /\ Head(trimmed) \in Digits
    /\ Len(trimmed) >= 2
    /\ trimmed[2] = "."

\* The runtime named by a marker line, Some as <<name>>.
runtime_of(line, before) ==
    IF Contains(line, RequiredRuntimeFor) /\ Len(Split(line, "(runtime/")) >= 2
    THEN <<Split(Split(line, "(runtime/")[2], ")")[1]>>
    ELSE before

\* One iteration of the loop over the lines.
DepLine(acc, line, app_id) ==
    IF Trim(line) = <<>>
    THEN acc
    ELSE LET seen == [acc EXCEPT !.required_runtime = runtime_of(line, @)]
             parts == line_parts(line)
         IN  IF is_numbered(Trim(line)) /\ Len(parts) >= 5
             THEN LET name == Trim(parts[2])
                      size == size_clean(parts)
                  IN  IF name # <<>> /\ size # <<>>
                      THEN IF name = app_id
                           THEN [seen EXCEPT !.app_main = <<Dependency(name, size)>>]
                           ELSE [seen EXCEPT !.dependencies = Append(@, Dependency(name, size))]
                      ELSE seen
             ELSE seen

RECURSIVE DepLoop(_, _, _)
DepLoop(lines, acc, app_id) ==
    IF lines = <<>> THEN acc
    ELSE DepLoop(Tail(lines), DepLine(acc, Head(lines), app_id), app_id)

with_fallback(acc, app_id) ==
    IF acc.app_main = <<>> /\ acc.required_runtime # <<>>
    THEN [acc EXCEPT !.app_main = <<Dependency(app_id, Unknown)>>,
                     !.dependencies = Append(@, Dependency(acc.required_runtime[1], Unknown))]
    ELSE acc

parse_dependencies(lines, app_id) ==
    LET acc == with_fallback(DepLoop(lines, NoDependencies, app_id), app_id)
    IN  acc.app_main \o acc.dependencies

\* get_install_dependencies parses the captured output of the probe.
DepRun(lines) ==
    /\ ~depDone
    /\ depDone' = TRUE
    /\ depLines' = lines
    /\ depOut' = parse_dependencies(lines, DepAppId)
    /\ UNCHANGED exceptDep

\* ------------------------------------------------------------------------
\* get_installable_extensions: the extension points of the metadata and
\* the rows of flatpak search
\* ------------------------------------------------------------------------
OrgAppA == <<"org", ".", "app", ".", "a">>
FreedesktopPlatform == Freedesktop \o <<".", "Platform">>
Plugin == OrgAppA \o <<".", "Plugin">>

ExtAppIds == {OrgAppA, FreedesktopPlatform}

ExtensionLine(name) == <<"[Extension ">> \o name \o <<"]">>

\* Lines of the metadata flatpak remote-info prints.
MetadataLines ==
    { ExtensionLine(Plugin),
      ExtensionLine(OrgAppA),
      ExtensionLine(OrgAppA \o <<".", "Debug">>),
      ExtensionLine(OrgAppA \o <<".", "Locale">>),
      ExtensionLine(OrgAppA \o <<"y", ".", "Help">>),
      ExtensionLine(FreedesktopPlatform \o <<".", "GL">>),
      <<"[Application]">> }

\* What flatpak search prints: rows of application and name.
SearchOutputs ==
    { <<>>,
      << Join(<<Plugin, <<"Plugin">>>>, TAB) >>,
      << Join(<<Plugin \o <<".", "X">>, <<"X">>>>, TAB), <<" ">> >>,
      << Join(<<Plugin \o <<"y">>, <<"Py">>>>, TAB), Join(<<Plugin, <<"Plugin">>>>, TAB) >>,
      << Join(<<FreedesktopPlatform \o <<".", "GL", ".", "default">>, <<"GL">>>>, TAB),
         Plugin \o <<".", "X">> >> }

\* Some(rest) is <<rest>>, None is <<>>.
strip_prefix(s, p) == IF s # <<>> /\ Head(s) = p THEN <<Tail(s)>> ELSE <<>>
strip_suffix(s, p) == IF s # <<>> /\ s[Len(s)] = p THEN <<SubSeq(s, 1, Len(s) - 1)>> ELSE <<>>

\* The name of the extension point a line declares, Some as <<name>>.
captures(line) ==
    LET s == strip_prefix(line, "[Extension ")
    IN  IF s = <<>> THEN <<>>
        ELSE IF strip_suffix(s[1], "]") = <<>> THEN <<>>
        ELSE <<Trim(strip_suffix(s[1], "]")[1])>>

belongs_to_app(extension_point, app_id) == starts_with(extension_point, app_id)

first_segment(extension_point, app_id) ==
    LET suffix == SubSeq(extension_point, Len(app_id) + 1, Len(extension_point))
        segments == Split(suffix, ".")
    IN  IF Len(segments) >= 2 THEN segments[2] ELSE <<>>

is_system_extension_point(extension_point, app_id) ==
    IF belongs_to_app(extension_point, app_id) /\ Len(extension_point) > Len(app_id)
    THEN first_segment(extension_point, app_id) \in {<<"Debug">>, <<"Locale">>, <<"Help">>}
    ELSE \/ Contains(extension_point, <<"org", ".", "freedesktop", ".", "Platform", ".">>)
         \/ Contains(extension_point, <<"org", ".", "freedesktop", ".", "Sdk", ".">>)

RECURSIVE extension_points(_, _)
extension_points(metadata, app_id) ==
    IF metadata = <<>> THEN <<>>
    ELSE LET c == captures(Head(metadata))
             rest == extension_points(Tail(metadata), app_id)
         IN  IF /\ c # <<>>
                /\ belongs_to_app(c[1], app_id)
                /\ ~is_system_extension_point(c[1], app_id)
             THEN <<c[1]>> \o rest
             ELSE rest

\* Variant of is_valid: any identifier that starts with the extension point.
is_valid_prefix(pkg_id, extension_point) == Len(pkg_id) >= Len(extension_point)

is_valid(pkg_id, extension_point) ==
    \/ pkg_id = extension_point
    \/ /\ Len(pkg_id) > Len(extension_point)
       /\ pkg_id[Len(extension_point) + 1] = "."

\* The rows of one search that are extensions of the extension point.
RECURSIVE search_matches(_, _)
search_matches(lines, extension_point) ==
    IF lines = <<>> THEN <<>>
    ELSE LET line == Head(lines)
             parts == Split(line, TAB)
             rest == search_matches(Tail(lines), extension_point)
         IN  IF Trim(line) = <<>> \/ Len(parts) < 2
             THEN rest
             ELSE LET pkg_id == Trim(parts[1])
                      pkg_name == Trim(parts[2])
                  IN  IF starts_with(pkg_id, extension_point) /\ is_valid(pkg_id, extension_point)
                      THEN <<[extension_id |-> pkg_id, name |-> pkg_name, version |-> <<>>]>>
                               \o rest
                      ELSE rest

\* The loop over the extension points, each searched for.
RECURSIVE installable_extensions(_, _)
installable_extensions(points, search) ==
    IF points = <<>> THEN <<>>
    ELSE search_matches(search, Head(points)) \o installable_extensions(Tail(points), search)

\* get_installable_extensions, with the metadata of the app and the output
\* flatpak search gives for an extension point.
ExtRun(app_id, metadata, search) ==
    /\ ~extDone
    /\ extDone' = TRUE
    /\ extAppId' = app_id
    /\ extMetadata' = metadata
    /\ extSearch' = search
    /\ extPoints' = extension_points(metadata, app_id)
    /\ extOut' = installable_extensions(extension_points(metadata, app_id), search)
    /\ UNCHANGED exceptExt

\* No function that is checked on its own has been applied.
PureIdle ==
    /\ cmdOp = ""
    /\ cmdArg = ""
    /\ cmdFlatpak = FALSE
    /\ cmdLine = <<>>
    /\ listDone = FALSE
    /\ listLines = <<>>
    /\ listOut = [apps |-> <<>>, runtimes |-> <<>>, extensions |-> <<>>]
    /\ devDone = FALSE
    /\ devId = <<>>
    /\ devOut = <<>>
    /\ depDone = FALSE
    /\ depLines = <<>>
    /\ depOut = <<>>
    /\ extDone = FALSE
    /\ extAppId = <<>>
    /\ extMetadata = <<>>
    /\ extSearch = <<>>
    /\ extPoints = <<>>
    /\ extOut = <<>>

\* Everything but these functions is in its initial state.
BaseInit == SessInit /\ ProbeInit /\ RelayIdle /\ RunInit

\* ------------------------------------------------------------------------
\* Specifications
\* ------------------------------------------------------------------------
Init == BaseInit /\ PureIdle

\* The session registry: the four commands, the watchdogs and the children.
Next ==
    \/ \E c \in Threads, k \in Keys : StartSpawn(c, k)
    \/ \E c \in Threads, k \in Keys : StartSpawnFail(c, k)
    \/ \E c \in Threads : StartInsert(c)
    \/ \E c \in Threads, k \in Keys, i \in Inputs : SendLock(c, k, i)
    \/ \E c \in Threads : SendWrite(c)
    \/ \E c \in Threads, k \in Keys : KillLock(c, k)
    \/ \E c \in Threads : KillWait(c)
    \/ \E c \in Threads, k \in Keys : CheckPty(c, k)
    \/ \E p \in Procs : WatchdogPoll(p)
    \/ \E p \in Procs : ProcExit(p)

Spec == Init /\ [][Next]_vars

\* The sessions with the scheduling the runtime guarantees: every watchdog
\* thread keeps running, a command that has started runs to its end, and a
\* process that was sent SIGKILL dies.  Nothing is assumed about which commands
\* the frontend invokes, nor about a process exiting on its own.
FairSpec ==
    /\ Init
    /\ [][Next]_vars
    /\ \A p \in Procs : WF_vars(WatchdogPoll(p))
    /\ \A c \in Threads : WF_vars(StartInsert(c))
    /\ \A c \in Threads : WF_vars(SendWrite(c))
    /\ \A c \in Threads : WF_vars(KillWait(c))
    /\ \A p \in Procs : WF_vars(ProcExit(p) /\ killed[p])

\* The sessions together with their output streams and install_flatpak.
StreamInit == SessInitWith(MaxStreamCalls) /\ ProbeInit /\ RelayIdle /\ RunInit /\ PureIdle

StreamNext ==
    \/ \E c \in Threads, k \in Keys : StartSpawn(c, k)
    \/ \E c \in Threads, k \in Keys : StartSpawnFail(c, k)
    \/ \E c \in Threads : StartInsert(c)
    \/ \E c \in Threads, k \in Keys, i \in Inputs : SendLock(c, k, i)
    \/ \E c \in Threads : SendWrite(c)
    \/ \E c \in Threads, k \in Keys : KillLock(c, k)
    \/ \E c \in Threads : KillWait(c)
    \/ \E c \in Threads, k \in Keys : CheckPty(c, k)
    \/ \E p \in Procs : WatchdogPoll(p)
    \/ \E p \in Procs : ProcExit(p)
    \/ \E c \in Threads, k \in Keys : InstallFlatpak(c, k)
    \/ \E c \in Threads, k \in Keys : InstallSpawnFail(c, k)
    \/ \E p \in Procs : InstallConfirm(p)
    \/ \E p \in Procs : InstallWait(p)
    \/ \E p \in Procs : ReadStdout(p)
    \/ \E p \in Procs : ReadStdoutEnd(p)
    \/ \E p \in Procs : ReadStderr(p)
    \/ \E p \in Procs : ReadStderrEnd(p)
    \/ \E p \in Procs : ProcWriteOut(p)
    \/ \E p \in Procs : ProcWriteErr(p)

StreamSpec == StreamInit /\ [][StreamNext]_vars

\* The sessions of start_flatpak_interactive with their three background
\* threads, whose reads can fail.
ReaderNext ==
    \/ \E c \in Threads, k \in Keys : StartSpawn(c, k)
    \/ \E c \in Threads, k \in Keys : StartSpawnFail(c, k)
    \/ \E c \in Threads : StartInsert(c)
    \/ \E c \in Threads, k \in Keys, i \in Inputs : SendLock(c, k, i)
    \/ \E c \in Threads : SendWrite(c)
    \/ \E c \in Threads, k \in Keys : KillLock(c, k)
    \/ \E c \in Threads : KillWait(c)
    \/ \E c \in Threads, k \in Keys : CheckPty(c, k)
    \/ \E p \in Procs : WatchdogPoll(p)
    \/ \E p \in Procs : ProcExit(p)
    \/ \E p \in Procs : ReadStdout(p)
    \/ \E p \in Procs : ReadStdoutEnd(p)
    \/ \E p \in Procs : ReadStdoutErr(p)
    \/ \E p \in Procs : ReadStderr(p)
    \/ \E p \in Procs : ReadStderrEnd(p)
    \/ \E p \in Procs : ReadStderrErr(p)
    \/ \E p \in Procs : ProcWriteOut(p)
    \/ \E p \in Procs : ProcWriteErr(p)

ReaderSpec == StreamInit /\ [][ReaderNext]_vars

\* The sessions of start_flatpak_interactive and of install_flatpak with
\* their input side: send_to_pty and the confirmation thread.
InstallNext ==
    \/ \E c \in Threads, k \in Keys : StartSpawn(c, k)
    \/ \E c \in Threads : StartInsert(c)
    \/ \E c \in Threads, k \in Keys, i \in Inputs : SendLock(c, k, i)
    \/ \E c \in Threads : SendWrite(c)
    \/ \E p \in Procs : WatchdogPoll(p)
    \/ \E p \in Procs : ProcExit(p)
    \/ \E c \in Threads, k \in Keys : InstallFlatpak(c, k)
    \/ \E c \in Threads, k \in Keys : InstallSpawnFail(c, k)
    \/ \E p \in Procs : InstallConfirm(p)
    \/ \E p \in Procs : InstallWait(p)

InstallSpec == StreamInit /\ [][InstallNext]_vars

\* get_install_dependencies.
ProbeNext ==
    \/ \E ok \in BOOLEAN, o \in Phase1Outputs, f \in BOOLEAN : ProbePhase1(ok, o, f)
    \/ \E ok \in BOOLEAN : ProbeSpawn(ok, ProbeAppId)
    \/ ProbeLoop
    \/ ProbeKill
    \/ ProbeJoin
    \/ ProbeReturn
    \/ ProbeReadOut
    \/ ProbeReadOutEnd
    \/ ProbeReadErr
    \/ ProbeReadErrEnd
    \/ \E line \in ProbeLines : ChildWriteOut(line)
    \/ ChildWriteErr
    \/ ChildExit
    \/ PipelineExit

ProbeSpec == Init /\ [][ProbeNext]_vars

\* get_install_dependencies with the scheduling the runtime guarantees: the
\* call and its two reader threads keep running, and a process that was sent
\* SIGKILL dies. Nothing is assumed about the pipeline's own progress.
ProbeFairSpec ==
    /\ Init
    /\ [][ProbeNext]_vars
    /\ WF_vars(ProbeLoop)
    /\ WF_vars(ProbeKill)
    /\ WF_vars(ProbeJoin)
    /\ WF_vars(ProbeReturn)
    /\ WF_vars(ProbeReadOut)
    /\ WF_vars(ProbeReadOutEnd)
    /\ WF_vars(ProbeReadErr)
    /\ WF_vars(ProbeReadErrEnd)
    /\ WF_vars(ChildExit /\ childKilled)

\* The relay threads of one session, over every stream of the bounded
\* length and every way the reads cut it.
RelayStart == SessInit /\ ProbeInit /\ RelayInit /\ RunInit /\ PureIdle

RelayNext ==
    \/ \E n \in 1..MaxRelayLen : RelayReadStdout(n)
    \/ RelayStdoutEnd
    \/ RelayReadStderr
    \/ RelayStderrEnd

RelaySpec == RelayStart /\ [][RelayNext]_vars

\* One streaming run-to-completion command.
RunNext ==
    \/ \E op \in RunOps, emitted \in BOOLEAN : RunStart(op, emitted)
    \/ \E flatpak \in BOOLEAN, ok \in BOOLEAN : RunSpawn(flatpak, ok)
    \/ \E ev \in CommandEvents, emitted \in BOOLEAN : RunRecv(ev, emitted)
    \/ RunClosed

RunSpec == Init /\ [][RunNext]_vars

\* The command lines of all operations, for both values of is_flatpak.
CmdNext == \E flatpak \in BOOLEAN, op \in CmdOps, arg \in CmdArgs : CmdBuild(flatpak, op, arg)

CmdSpec == Init /\ [][CmdNext]_vars

\* The listings of up to MaxRows lines.
ListNext == \E lines \in SeqsUpTo(ListRows, MaxRows) : ListRun(lines)

ListSpec == Init /\ [][ListNext]_vars

\* extract_developer of every identifier.
DevNext == \E app_id \in DevIds : DevRun(app_id)

DevSpec == Init /\ [][DevNext]_vars

\* The captured outputs of up to MaxDepLines lines.
DepNext == \E lines \in SeqsUpTo(DepLines, MaxDepLines) : DepRun(lines)

DepSpec == Init /\ [][DepNext]_vars

\* The metadata of up to MaxMetaLines lines, for each app and search output.
ExtNext ==
    \E app_id \in ExtAppIds, metadata \in SeqsUpTo(MetadataLines, MaxMetaLines),
       search \in SearchOutputs : ExtRun(app_id, metadata, search)

ExtSpec == Init /\ [][ExtNext]_vars

\* ------------------------------------------------------------------------
\* Properties
\* ------------------------------------------------------------------------
\* Session p was started by start_flatpak_interactive and stored in the map.
Registered(p) == wd[p] \in {"polling", "done"} /\ inj[p] = "none"

\* Number of pty-terminated events emitted about session p.
TermCount(p) ==
    Cardinality({i \in 1..Len(events[p]) : events[p][i] = "pty-terminated"})

\* kill_pty_process is between its map.remove and its return for session p.
KillInProgress(p) == \E c \in Threads : pc[c] = "kill_wait" /\ local[c].proc = p

\* Nothing can happen to session p any more: its child has exited, the map
\* does not hold it and no kill of it is under way.
SessionOver(p) ==
    /\ Registered(p)
    /\ procState[p] = "exited"
    /\ \A k \in Keys : map[k] # p
    /\ ~KillInProgress(p)

\* kill_pty_process has removed session p and emitted its terminal event.
KillEmitted(p) == killed[p] /\ ~KillInProgress(p)

\* C1: for every key, at most one child that was stored in the map under that
\* key is still running without having been killed (a start for a key with a
\* running child terminates the old child before it inserts the new one).
C1_OneLiveHandlePerKey ==
    \A k \in Keys :
        Cardinality({p \in Procs : /\ Registered(p)
                                   /\ procKey[p] = k
                                   /\ procState[p] = "running"
                                   /\ ~killed[p]}) <= 1

\* C2: once a session is over, exactly one pty-terminated event has been
\* emitted about it, whichever of the watchdog, kill_pty_process and
\* check_pty_process saw or caused the end of its child.
C2_ExactlyOneTerminal ==
    \A p \in Procs : SessionOver(p) => TermCount(p) = 1

\* C3: in the events of a session no pty-output and no pty-error comes after
\* pty-terminated.
C3_TerminatedIsLast ==
    \A p \in Procs : \A i, j \in 1..Len(events[p]) :
        (i < j /\ events[p][i] = "pty-terminated")
            => events[p][j] \notin {"pty-output", "pty-error"}

\* C4: no thread holds the lock of the map while it is in a blocking call on
\* a child (the write and flush of send_to_pty, the wait of kill_pty_process).
C4_NoLockAcrossBlockingIO ==
    \A c \in Threads : pc[c] \in {"send_write", "kill_wait"} => lock # c

\* C5: when get_install_dependencies has run phase 2 and returned, the child
\* of the probe is not running, however the wait loop was left.
C5_ProbeChildNotRunning ==
    (probePc = "done" /\ loopExit # "none") => child # "running"

\* The probe returned after the 7 s timeout, no list entry having been seen.
C5_Witness ==
    /\ probePc = "done"
    /\ probeRet = "Ok"
    /\ loopExit = "timeout"
    /\ ~found_list
    /\ childKilled

C7_KillPtyProcess ==
    [][ /\ \A c \in Threads :
             (pc[c] = "kill_wait" /\ pc'[c] = "idle")
                => /\ ret' = [op |-> "kill", key |-> local[c].key, value |-> OkUnit]
                   /\ killed'[local[c].proc]
                   /\ procState'[local[c].proc] = "exited"
                   /\ map'[local[c].key] = None
                   /\ events' = [events EXCEPT ![local[c].proc] =
                                    Append(@, "pty-terminated")]
        /\ (/\ calls' # calls
            /\ ret'.op = "kill"
            /\ \A c \in Threads : pc[c] # "kill_wait")
                => /\ ret'.value = ErrNotFound
                   /\ map[ret'.key] = None
                   /\ UNCHANGED <<map, events, killed>>
        /\ \A c \in Threads, k \in Keys :
             (pc[c] = "idle" /\ pc'[c] = "kill_wait" /\ local'[c].key = k)
                => (map[k] # None /\ local'[c].proc = map[k])
      ]_vars

\* kill_pty_process has returned Ok: the session of its key is killed, has
\* exited, is out of the map and has its terminal event.
C7_Witness ==
    /\ ret.op = "kill"
    /\ ret.value = OkUnit
    /\ \E p \in Procs : /\ killed[p]
                        /\ procState[p] = "exited"
                        /\ procKey[p] = ret.key
                        /\ map[ret.key] = None
                        /\ events[p] = <<"pty-terminated">>

\* C8: check_pty_process returns false for a key without entry; false, the
\* entry removed, when the child of the entry has exited; true, the entry
\* left in place, when the child is running.
C8_CheckPtyProcess ==
    [][ (calls' # calls /\ ret'.op = "check")
          => /\ map[ret'.key] = None
                  => (ret'.value = "false" /\ map' = map)
             /\ (map[ret'.key] # None /\ procState[map[ret'.key]] = "exited")
                  => (ret'.value = "false" /\ map' = [map EXCEPT ![ret'.key] = None])
             /\ (map[ret'.key] # None /\ procState[map[ret'.key]] = "running")
                  => (ret'.value = "true" /\ map' = map)
      ]_vars

\* A session was started, its child exited, and check_pty_process returned
\* false and removed the entry before the watchdog saw the exit.
C8_Witness ==
    /\ calls = 2
    /\ ret.op = "check"
    /\ ret.value = "false"
    /\ \E p \in Procs : /\ Registered(p)
                        /\ procKey[p] = ret.key
                        /\ procState[p] = "exited"
                        /\ wd[p] = "polling"
                        /\ map[ret.key] = None

C10_RemovedOnlyIfExitedOrKilled ==
    [][ \A k \in Keys :
          (map[k] # None /\ map'[k] # map[k])
             => (procState[map[k]] = "exited" \/ killed'[map[k]])
      ]_vars

\* C11: phase 2 always terminates: once get_install_dependencies is in its
\* wait loop, whichever way the loop ends (list entry seen, process exited,
\* timeout), the call kills the process and returns a result, also when the
\* process prints no line and never exits.
C11_Phase2Terminates == (probePc = "loop") ~> (probePc = "done")

\* The phase-1 text that decided the course of the call holds the phrase.
MarkerSeen == Contains(combined_first(stdout, stderr), RequiredRuntimeFor)

\* C12: the phase-2 process is spawned if and only if the combined stdout and
\* stderr of phase 1 contains "Required runtime for": a process exists only if
\* the phrase was there; when it was there the call goes on to the spawn; and
\* when it was absent the call returns with no second process ever spawned
\* and parses the phase-1 output alone.
C12_SpawnIffMarker ==
    /\ child # "none" => MarkerSeen
    /\ probePc \in {"spawn", "loop", "kill", "join"} => MarkerSeen
    /\ (probePc \in {"parse", "done"} /\ probeRet \in {"none", "Ok"} /\ MarkerSeen)
          => child # "none"
    /\ (probePc \in {"parse", "done"} /\ probeRet \in {"none", "Ok"} /\ ~MarkerSeen)
          => /\ child = "none"
             /\ pipeline = "none"
             /\ combined_output = <<stdout, stderr>>

\* The probe spawned its process for a phrase that stood in stderr only.
C12_Witness ==
    /\ probePc = "done"
    /\ probeRet = "Ok"
    /\ stdout = <<>>
    /\ child = "exited"

\* The command line pipes the output of another command into script, i.e.
\* the installer reads its answers from that command instead of a terminal.
PipedInput(cmd) == \E i \in 1..(Len(cmd) - 1) : cmd[i] = "|" /\ cmd[i + 1] = "script"

\* C13: the phase-2 process of get_install_dependencies runs the install
\* command with no automatically injected answer on its input, in the
\* sandboxed and in the non-sandboxed variant.
C13_ProbeNoInjectedAnswer == child # "none" => ~PipedInput(cmd_str)

TextsOf(evs, name) ==
    LET sel == SelectSeq(evs, LAMBDA e : e[1] = name)
    IN  [i \in 1..Len(sel) |-> sel[i][2]]

RECURSIVE Flatten(_)
Flatten(ss) == IF ss = <<>> THEN <<>> ELSE Head(ss) \o Flatten(Tail(ss))

\* The number of line feeds in s.
CountNL(s) == Cardinality({i \in 1..Len(s) : s[i] = NL})

\* C15: a byte sequence written to stdout that contains carriage returns and
\* no line feed is relayed as exactly one pty-output event whose text is that
\* sequence, carriage returns included, however the reads deliver it.
C15_CarriageReturnsOneEvent ==
    (/\ stdout_reader = "done"
     /\ CountNL(stdoutBytes) = 0
     /\ \E i \in 1..Len(stdoutBytes) : stdoutBytes[i] = "\r")
       => TextsOf(relayEvents, "pty-output") = <<stdoutBytes>>

\* C16 as stated: a read chunk with exactly two line feeds yields exactly two
\* pty-output events.
C16_TwoLineFeedsTwoEvents ==
    [][(stdoutPos' # stdoutPos /\ CountNL(chunk') = 2)
          => Len(relayEvents') = Len(relayEvents) + 2]_vars

\* The positions of a chunk at which a piece without line feed begins.
Starts(c) == {i \in 1..Len(c) : c[i] # NL /\ (i = 1 \/ c[i - 1] = NL)}

\* The piece without line feed that begins at position i of c.
PieceAt(c, i) ==
    LET j == CHOOSE j \in i..Len(c) :
                /\ \A m \in i..j : c[m] # NL
                /\ j = Len(c) \/ c[j + 1] = NL
    IN  SubSeq(c, i, j)

\* C16, amended: a read chunk is split at line feeds only and exactly its
\* non-empty pieces are emitted, one pty-output event each, in their order; a
\* chunk with two line feeds thus yields between zero and three events, two
\* when exactly two of its three pieces are non-empty.
C16_NonEmptyPiecesEmitted ==
    [][stdoutPos' # stdoutPos =>
         LET c == chunk'
             n == Len(relayEvents)
         IN  /\ c = SubSeq(stdoutBytes, stdoutPos + 1, stdoutPos')
             /\ Len(relayEvents') = n + Cardinality(Starts(c))
             /\ SubSeq(relayEvents', 1, n) = relayEvents
             /\ \A i \in Starts(c) :
                  relayEvents'[n + Cardinality({t \in Starts(c) : t <= i})]
                     = <<"pty-output", PieceAt(c, i)>>
      ]_vars

\* One read has delivered "a\na\n": two events, the empty third piece dropped.
C16_Witness ==
    /\ chunk = <<"a", NL, "a", NL>>
    /\ relayEvents = << <<"pty-output", <<"a">>>>, <<"pty-output", <<"a">>>> >>

\* C17: the pty-output events of a byte stream are the same for every way of
\* cutting it into read chunks, namely those of the stream delivered whole.
C17_ChunkingIndependent ==
    stdout_reader = "done"
       => TextsOf(relayEvents, "pty-output")
             = TextsOf(EmitLines(<<>>, Split(stdoutBytes, NL)), "pty-output")

\* C18: the pty-output events of a session carry the bytes of stdout in the
\* order they were written (all but the line feeds, none twice, none out of
\* place), and the pty-error events are the lines of stderr in the order they
\* were written.
C18_StreamOrderKept ==
    /\ Flatten(TextsOf(relayEvents, "pty-output"))
          = SelectSeq(SubSeq(stdoutBytes, 1, stdoutPos), LAMBDA b : b # NL)
    /\ TextsOf(relayEvents, "pty-error") = SubSeq(stderrLines, 1, stderrPos)

\* Both streams have been relayed to their ends, each with two events of
\* different texts.
C18_Witness ==
    /\ stdout_reader = "done"
    /\ stderr_reader = "done"
    /\ TextsOf(relayEvents, "pty-output") = << <<"a">>, <<"\r">> >>
    /\ TextsOf(relayEvents, "pty-error") = << <<"a">>, <<"b">> >>

\* The step is the failure of the spawn of a streaming command.
SpawnFails == runPc = "spawn" /\ runPc' = "done"

\* C19 as stated: when the process of a streaming command cannot be spawned,
\* the command emits a single install-error event and raises no error.
C19_SpawnFailureEmitsError ==
    [][SpawnFails =>
         /\ runRet' = "Ok"
         /\ Len(runEvents') = Len(runEvents) + 1
         /\ runEvents'[Len(runEvents')][1] = "install-error"
      ]_vars

\* C19, amended: when the process of a streaming command cannot be spawned,
\* the command returns the error "Failed to spawn ..." to its caller and
\* emits nothing for it: the announcement it emitted first stays its only
\* event, so there is no install-error and no install-completed event.
C19_SpawnFailureReturned ==
    [][SpawnFails =>
         /\ runRet' \in {ErrSpawnFlatpak, ErrSpawnFlatpakSpawn}
         /\ runEvents' = runEvents
         /\ runEvents' = << <<"install-output", Announce(runOp)>> >>
      ]_vars

\* The spawn of update_flatpak failed.
C19_Witness ==
    /\ runOp = "update_flatpak"
    /\ runPc = "done"
    /\ runRet = ErrSpawnFlatpak
    /\ runEvents = << <<"install-output", Announce("update_flatpak")>> >>

\* The step is rx.recv() returning the Terminated event.
TerminatedReceived == runRecv' # runRecv /\ event'[1] = "Terminated"

\* The exit code install-completed has to carry for the event received.
CodeOf(ev) == IF ev[2] = <<>> THEN -1 ELSE ev[2][1]

\* The number of install-completed events emitted.
CompletedCount(evs) == Cardinality({i \in 1..Len(evs) : evs[i][1] = "install-completed"})

\* C20 as stated: receiving Terminated makes the command emit
\* install-completed with the exit code (-1 when there is none) exactly once,
\* emit nothing afterwards, and return success whatever the exit code.
C20_TerminatedCompletes ==
    [][/\ TerminatedReceived =>
            /\ Len(runEvents') = Len(runEvents) + 1
            /\ runEvents'[Len(runEvents')][1] = "install-completed"
            /\ runEvents'[Len(runEvents')][2] = CodeOf(event')
            /\ runRet' = "Ok"
            /\ runPc' = "done"
       /\ runPc = "done" => runEvents' = runEvents
       /\ CompletedCount(runEvents') <= 1
      ]_vars

\* C20, amended: receiving Terminated ends the command: either
\* install-completed is emitted with the exit code (-1 when there is none),
\* as the last event and the only one of its name, and the command returns
\* success, whatever the exit code; or that emit fails and the command
\* returns "Failed to emit completion" with no event emitted. Nothing is
\* emitted afterwards.
C20_TerminatedEndsCommand ==
    [][/\ TerminatedReceived =>
            /\ runPc' = "done"
            /\ \/ /\ Len(runEvents') = Len(runEvents) + 1
                  /\ SubSeq(runEvents', 1, Len(runEvents)) = runEvents
                  /\ runEvents'[Len(runEvents')][1] = "install-completed"
                  /\ runEvents'[Len(runEvents')][2] = CodeOf(event')
                  /\ runRet' = "Ok"
               \/ /\ runEvents' = runEvents
                  /\ runRet' = ErrEmitCompletion
       /\ runPc = "done" => runEvents' = runEvents /\ runRet' = runRet
       /\ CompletedCount(runEvents') <= 1
       /\ CompletedCount(runEvents') = 1 => runRet' = "Ok" /\ runPc' = "done"
      ]_vars

\* A command has ended on a Terminated event without exit code, after an
\* error event: install-completed carries -1 and the result is Ok.
C20_Witness ==
    /\ runPc = "done"
    /\ runRet = "Ok"
    /\ event = <<"Terminated", <<>>>>
    /\ Len(runEvents) = 3
    /\ runEvents[2][1] = "install-error"
    /\ runEvents[3] = <<"install-completed", -1>>

\* The host-delegation wrapper put in front of a whole command.
HostWrap(cmd) == <<"flatpak-spawn", "--host">> \o cmd

\* The host-delegation wrapper put directly in front of the flatpak
\* invocation of a command, wherever in the command that stands.
HostWrapFlatpak(cmd) ==
    LET i == CHOOSE i \in 1..Len(cmd) :
                 cmd[i] = "flatpak" /\ \A j \in 1..(i - 1) : cmd[j] # "flatpak"
    IN  SubSeq(cmd, 1, i - 1) \o HostWrap(SubSeq(cmd, i, Len(cmd)))

\* C21 as stated: the sandboxed command of every operation and argument is
\* the non-sandboxed command, program and arguments, behind flatpak-spawn
\* --host.
C21_SandboxedIsWrappedCommand ==
    (cmdOp # "" /\ cmdFlatpak) => cmdLine = HostWrap(CommandFor(FALSE, cmdOp, cmdArg))

\* C21, amended: the sandboxed command of every operation and argument is
\* the non-sandboxed command with flatpak-spawn --host put directly in front
\* of its flatpak invocation, which for an operation run through sh -c stands
\* inside the shell line (sh, script and the pipe stay as they are); the two
\* differ in nothing else, the non-sandboxed command never holds the wrapper,
\* and the same inputs give the same command again.
C21_SandboxedWrapsFlatpak ==
    [][/\ (cmdOp' # "" /\ cmdFlatpak')
            => cmdLine' = HostWrapFlatpak(CommandFor(FALSE, cmdOp', cmdArg'))
       /\ (cmdOp' # "" /\ ~cmdFlatpak')
            => \A i \in 1..Len(cmdLine') : cmdLine'[i] # "flatpak-spawn"
       /\ (cmdOp' = cmdOp /\ cmdArg' = cmdArg /\ cmdFlatpak' = cmdFlatpak)
            => cmdLine' = cmdLine
      ]_vars

\* The sandboxed command of launch_flatpak has been built.
C21_Witness ==
    /\ cmdOp = "launch_flatpak"
    /\ cmdFlatpak
    /\ cmdLine = <<"flatpak-spawn", "--host", "flatpak", "run", "org.app.a">>


\* The columns of a line of the listing, and the lines that are rows: not
\* blank, six columns or more.
Columns(line) == Split(line, TAB)
IsRow(line) == Trim(line) # <<>> /\ Len(Columns(line)) >= 6
RowId(line) == Trim(Columns(line)[1])
RowOptions(line) == Trim(Columns(line)[5])
RowRef(line) == Trim(Columns(line)[6])
HasRuntimeToken(line) == \E i \in 1..Len(RowOptions(line)) : RowOptions(line)[i] = "runtime"
AppRows == {i \in 1..Len(listLines) : IsRow(listLines[i]) /\ ~HasRuntimeToken(listLines[i])}
RuntimeRows == {i \in 1..Len(listLines) : IsRow(listLines[i]) /\ HasRuntimeToken(listLines[i])}
AppIds == {listOut.apps[k].app_id : k \in 1..Len(listOut.apps)}
RuntimeRefs == {listOut.runtimes[k] : k \in 1..Len(listOut.runtimes)}
ExtensionIds == {listOut.extensions[k].extension_id : k \in 1..Len(listOut.extensions)}

\* C22: every row of the listing whose options column holds the token
\* runtime is returned among the runtime references or the extensions and
\* not as an app, every other row is returned as an app; a row with the
\* options user,current is in the apps list.
C22_RowsClassifiedByOptions ==
    listDone =>
        /\ Len(listOut.apps) = Cardinality(AppRows)
        /\ Len(listOut.runtimes) + Len(listOut.extensions) = Cardinality(RuntimeRows)
        /\ \A i \in AppRows : RowId(listLines[i]) \in AppIds
        /\ \A i \in RuntimeRows :
               /\ RowRef(listLines[i]) \in RuntimeRefs \/ RowId(listLines[i]) \in ExtensionIds
               /\ RowId(listLines[i]) \notin AppIds
        /\ \A i \in 1..Len(listLines) :
               (IsRow(listLines[i]) /\ RowOptions(listLines[i]) = UserCurrent)
                   => RowId(listLines[i]) \in AppIds

\* A listing with a user,current row and a user,runtime row has been read.
C22_Witness ==
    /\ listDone
    /\ \E i \in AppRows : RowOptions(listLines[i]) = UserCurrent
    /\ \E i \in RuntimeRows : RowOptions(listLines[i]) = UserRuntime
    /\ Len(listOut.apps) = 1

\* The rows of runtimes whose identifier is on the denylist of platform,
\* SDK and driver names.
DeniedRows ==
    {i \in RuntimeRows : \E p \in SystemExtensionPatterns : Contains(RowId(listLines[i]), p)}

\* C23: a runtime row whose identifier is on the denylist is returned as a
\* runtime reference and never as an extension, whatever apps the listing
\* holds, an app whose identifier is a prefix of the row's identifier
\* included.
C23_DeniedRowsAreRuntimes ==
    listDone =>
        \A i \in DeniedRows :
            /\ RowRef(listLines[i]) \in RuntimeRefs
            /\ RowId(listLines[i]) \notin ExtensionIds

\* A row of org.freedesktop.Platform.GL.default has been read together with
\* the row of the app org.freedesktop.
C23_Witness ==
    /\ listDone
    /\ \E i \in DeniedRows :
           /\ Contains(RowId(listLines[i]), <<"org", ".", "freedesktop", ".", "Platform", ".">>)
           /\ \E j \in AppRows : starts_with(RowId(listLines[i]), RowId(listLines[j]))

\* The rows of candidate extensions, and the app rows whose identifier is a
\* strict prefix of the identifier of row i.
CandidateRows == RuntimeRows \ DeniedRows
StrictPrefix(p, s) == Len(p) < Len(s) /\ SubSeq(s, 1, Len(p)) = p
ParentRows(i) == {j \in AppRows : StrictPrefix(RowId(listLines[j]), RowId(listLines[i]))}

\* C24: a candidate extension row is returned as an extension bound to the
\* first app of the listing whose identifier is a strict prefix of its own
\* whenever the listing holds such an app, before or after the row, and its
\* ref is added to the runtime references otherwise.
C24_ExtensionBoundToParent ==
    listDone =>
        /\ \A i \in CandidateRows :
               IF ParentRows(i) # {}
               THEN /\ \E k \in 1..Len(listOut.extensions) :
                           /\ listOut.extensions[k].extension_id = RowId(listLines[i])
                           /\ \E j \in ParentRows(i) :
                                  /\ listOut.extensions[k].parent_app_id = RowId(listLines[j])
                                  /\ \A h \in ParentRows(i) : j <= h
                    /\ RowRef(listLines[i]) \notin RuntimeRefs
               ELSE /\ RowRef(listLines[i]) \in RuntimeRefs
                    /\ RowId(listLines[i]) \notin ExtensionIds
        /\ Len(listOut.extensions) = Cardinality({i \in CandidateRows : ParentRows(i) # {}})

\* org.mozilla.firefox.Locale, read before the row of org.mozilla.firefox,
\* is returned as an extension of that app.
C24_Witness ==
    /\ listDone
    /\ \E i \in CandidateRows, j \in AppRows :
           /\ i < j
           /\ RowId(listLines[i]) = Firefox \o <<".", "Locale">>
           /\ RowId(listLines[j]) = Firefox
    /\ \E k \in 1..Len(listOut.extensions) :
           /\ listOut.extensions[k].extension_id = Firefox \o <<".", "Locale">>
           /\ listOut.extensions[k].parent_app_id = Firefox


\* The positions of the dots of the identifier, and the segment that ends
\* at the dot at position i.
DotsOf(id) == {i \in 1..Len(id) : id[i] = "."}
SegmentBefore(id, i) ==
    LET before == {j \in DotsOf(id) : j < i}
        from == IF before = {} THEN 0 ELSE CHOOSE j \in before : \A h \in before : h <= j
    IN  SubSeq(id, from + 1, i - 1)
LastDot(id) == CHOOSE i \in DotsOf(id) : \A h \in DotsOf(id) : h <= i

\* C25: extract_developer returns the second-to-last dot-separated segment
\* of an identifier of two segments or more, which is the segment in front
\* of its last dot, and None for an identifier without a dot;
\* io.github.N3kosempai.klia-store gives N3kosempai, org.mozilla.firefox
\* gives mozilla and single gives None.
C25_SecondToLastSegment ==
    devDone =>
        /\ IF DotsOf(devId) = {}
           THEN devOut = <<>>
           ELSE devOut = <<SegmentBefore(devId, LastDot(devId))>>
        /\ devId = KliaStore => devOut = <<<<"N3kosempai">>>>
        /\ devId = Firefox => devOut = <<<<"mozilla">>>>
        /\ devId = <<"single">> => devOut = <<>>

\* The developer of io.github.N3kosempai.klia-store has been extracted.
C25_Witness == devDone /\ devId = KliaStore /\ devOut = <<<<"N3kosempai">>>>


\* A numbered line: a number, of one digit or more, and a dot in front.
NumberedLine(line) ==
    \E k \in 1..(Len(Trim(line)) - 1) :
        /\ \A j \in 1..k : Trim(line)[j] \in Digits
        /\ Trim(line)[k + 1] = "."
\* The lines with a number and five fields or more.
DepRows == {i \in 1..Len(depLines) : NumberedLine(depLines[i]) /\ Len(line_parts(depLines[i])) >= 5}
RowName(i) == line_parts(depLines[i])[2]
RowSize(i) == size_clean(line_parts(depLines[i]))
Records == {depOut[k] : k \in 1..Len(depOut)}

\* C26 as stated: every numbered line of five fields or more yields the
\* record whose name is its second field and whose two sizes are the run of
\* size tokens from the fifth field on, joined and cleaned; the line
\* 1. org.kde.Platform 5.15-23.08 i flathub < 346,1 MB yields
\* org.kde.Platform with 346,1 MB; a row whose size is empty yields nothing.
C26_NumberedLineYieldsRecord ==
    depDone =>
        /\ \A i \in DepRows :
               IF RowSize(i) # <<>>
               THEN Dependency(RowName(i), RowSize(i)) \in Records
               ELSE \A r \in Records : r.name # RowName(i)
        /\ (\E i \in DepRows : RowName(i) = KdePlatform)
               => Dependency(KdePlatform, <<"3", "46,1", " ", "MB">>) \in Records

\* The marker with the runtime it names has been seen in some line.
MarkerWithRuntime ==
    \E i \in 1..Len(depLines) :
        Contains(depLines[i], RequiredRuntimeFor) /\ Contains(depLines[i], <<"(runtime/">>)
UnknownRecords == {r \in Records : r.download_size = Unknown}
ParsedRecords == {r \in Records : r.download_size # Unknown}

\* C27 as stated: the two records of size Unknown, the requested package
\* and the runtime of the marker, are returned exactly when the marker was
\* seen and no numbered row was parsed; when a row was parsed there is no
\* record of size Unknown.
C27_FallbackOnlyWithoutRows ==
    depDone =>
        /\ UnknownRecords # {} <=> (MarkerWithRuntime /\ ParsedRecords = {})
        /\ UnknownRecords # {}
               => depOut = <<Dependency(DepAppId, Unknown), Dependency(KdeRef, Unknown)>>

\* C28 as stated: the first record of a list that is not empty is the
\* requested package, no later record has its name, and the later records
\* parsed from rows stand in the order of their lines.
C28_RequestedPackageFirst ==
    (depDone /\ depOut # <<>>) =>
        /\ depOut[1].name = DepAppId
        /\ \A k \in 2..Len(depOut) : depOut[k].name # DepAppId
        /\ \A k, m \in 2..Len(depOut) :
               (k < m /\ depOut[k] \in ParsedRecords /\ depOut[m] \in ParsedRecords)
                   => \E i, j \in DepRows :
                          i <= j /\ RowName(i) = depOut[k].name /\ RowName(j) = depOut[m].name


\* The extension points the metadata declares, in the order of its lines.
RECURSIVE DeclaredPoints(_)
DeclaredPoints(metadata) ==
    IF metadata = <<>> THEN <<>>
    ELSE captures(Head(metadata)) \o DeclaredPoints(Tail(metadata))
\* The segment behind the first dot that follows the identifier.
SegmentAfterId(name, id) ==
    LET dots == {i \in (Len(id) + 1)..Len(name) : name[i] = "."}
        first == CHOOSE i \in dots : \A h \in dots : i <= h
        later == {i \in dots : i > first}
        next == IF later = {} THEN Len(name) + 1
                ELSE CHOOSE i \in later : \A h \in later : i <= h
    IN  IF dots = {} THEN <<>> ELSE SubSeq(name, first + 1, next - 1)
ReferencesPlatform(name) ==
    \/ Contains(name, <<"org", ".", "freedesktop", ".", "Platform", ".">>)
    \/ Contains(name, <<"org", ".", "freedesktop", ".", "Sdk", ".">>)
Retained(name) ==
    /\ StrictPrefix(extAppId, name) \/ extAppId = name
    /\ SegmentAfterId(name, extAppId) \notin {<<"Debug">>, <<"Locale">>, <<"Help">>}
    /\ ~ReferencesPlatform(name)

\* C29 as stated: the extension points retained, and searched for, are
\* those declared whose name starts with the identifier of the package,
\* whose first segment after the identifier is none of Debug, Locale and
\* Help, and that reference no platform or SDK namespace, in the order of
\* the metadata.
C29_RetainedExtensionPoints ==
    extDone => extPoints = SelectSeq(DeclaredPoints(extMetadata), Retained)

\* The rows of the search output, and the rows that are the extension point
\* or the extension point followed by a dot and a suffix.
SearchRow(line) == Trim(line) # <<>> /\ Len(Split(line, TAB)) >= 2
SearchId(line) == Trim(Split(line, TAB)[1])
Accepted(line, point) ==
    /\ SearchRow(line)
    /\ \/ SearchId(line) = point
       \/ StrictPrefix(point \o <<".">>, SearchId(line))
       \/ SearchId(line) = point \o <<".">>
RECURSIVE AcceptedIds(_, _)
AcceptedIds(lines, point) ==
    IF lines = <<>> THEN <<>>
    ELSE (IF Accepted(Head(lines), point) THEN <<SearchId(Head(lines))>> ELSE <<>>)
             \o AcceptedIds(Tail(lines), point)
RECURSIVE AcceptedAll(_)
AcceptedAll(points) ==
    IF points = <<>> THEN <<>>
    ELSE AcceptedIds(extSearch, Head(points)) \o AcceptedAll(Tail(points))

\* C30: for every retained extension point and every row of its search, the
\* row is returned exactly if its identifier is the extension point or the
\* extension point followed by a dot and a suffix; an identifier that only
\* shares the extension point as the text of its beginning is not returned.
C30_RowAcceptedOnSegmentBoundary ==
    extDone =>
        /\ Len(extOut) = Len(AcceptedAll(extPoints))
        /\ \A k \in 1..Len(extOut) : extOut[k].extension_id = AcceptedAll(extPoints)[k]

\* The search for org.app.a.Plugin printed org.app.a.Pluginy and
\* org.app.a.Plugin: only the second is returned.
C30_Witness ==
    /\ extDone
    /\ extPoints = <<Plugin>>
    /\ \E j \in 1..Len(extSearch) : SearchId(extSearch[j]) = Plugin \o <<"y">>
    /\ Len(extOut) = 1
    /\ extOut[1].extension_id = Plugin

\* ------------------------------------------------------------------------
\* The background threads of a session and the registry
\* ------------------------------------------------------------------------
\* The stdout reader of session p ends on a read error in this step.
StdoutReadFails(p) == rdOut[p] = "reading" /\ rdOut'[p] = "failed"

\* The stderr reader of session p drops a line it could not read in this step.
StderrReadFails(p) == pipeErr'[p] < pipeErr[p] /\ events'[p] = events[p]

\* What a reader does not own: the registry and its lock, the watchdogs, the
\* commands in progress and their results, the children.
OutsideReaders == <<map, lock, wd, pc, local, ret, calls, procState, killed,
                    stdinBuf, stdinPipe>>

\* A command that returns in this step returns v.
Returns(op, v) == calls' = calls + 1 /\ ret'.op = op /\ ret'.value = v

\* The session whose stdout reader has failed is still registered and watched.
FailedButRegistered(p) ==
    /\ rdOut[p] = "failed"
    /\ map[procKey[p]] = p
    /\ wd[p] = "polling"

\* C31: a read error in one reader of a session stops at most that stream's
\* forwarding: the step changes no registry entry, no lock, no watchdog, no
\* command and not the other reader; the watchdog of the session goes on
\* polling, and a later command fails only for what the registry and the child
\* say (no entry under the key, a write to an exited child), never because a
\* reader has failed.
C31_ReaderFailureIsLocal ==
    /\ [][\A p \in Procs :
            /\ StdoutReadFails(p) =>
                 /\ UNCHANGED OutsideReaders
                 /\ UNCHANGED <<rdErr, events, pipeOut, pipeErr>>
                 /\ \A q \in Procs \ {p} : rdOut'[q] = rdOut[q]
            /\ StderrReadFails(p) =>
                 /\ UNCHANGED OutsideReaders
                 /\ UNCHANGED <<rdOut, rdErr, events, pipeOut>>]_vars
    /\ [][\A k \in Keys :
            /\ (ret'.key = k /\ \E op \in {"send", "kill"} : Returns(op, ErrNotFound))
                  => map[k] = None
            /\ (ret'.key = k /\ Returns("send", ErrWrite))
                  => map[k] # None /\ procState[map[k]] = "exited"
            /\ (ret'.key = k /\ Returns("check", "false"))
                  => (map[k] = None \/ procState[map[k]] = "exited")
            /\ (ret'.key = k /\ Returns("start", OkUnit)) => map'[k] # None]_vars
    /\ [](\A p \in Procs :
            (FailedButRegistered(p) /\ lock = "free") => ENABLED WatchdogPoll(p))

\* After the stdout reader of a session failed, send_to_pty wrote to that
\* session, its stderr reader forwarded a line, and its watchdog announced the
\* exit and removed the entry.
C31_Witness ==
    \E p \in Procs :
        /\ rdOut[p] = "failed"
        /\ rdErr[p] = "done"
        /\ wd[p] = "done"
        /\ stdinPipe[p] # <<>>
        /\ events[p] = <<"pty-error", "pty-terminated">>
        /\ map[procKey[p]] = None

\* Session p was registered by start_flatpak_interactive.
Started(p) == wd[p] # "none"

\* The process of session p has exited.
Exited(p) == procState[p] = "exited"

\* No entry of the registry holds the process of session p.
Unregistered(p) == \A k \in Keys : map[k] # p

\* The terminal event of session p has been emitted.
Announced(p) == \E i \in 1..Len(events[p]) : events[p][i] = "pty-terminated"

\* C32: with the watchdog scheduled fairly, every started session whose
\* process has exited, on its own or by kill, eventually has its entry removed
\* and its terminal event emitted.
C32_ExitedSessionRemovedAndAnnounced ==
    \A p \in Procs :
        (Started(p) /\ Exited(p)) ~> (Unregistered(p) /\ Announced(p))

\* The half of C32 about the entry alone: the entry of an exited process is
\* eventually removed.
ExitedSessionRemoved ==
    \A p \in Procs : (Started(p) /\ Exited(p)) ~> Unregistered(p)

\* The watchdog thread of session p is in its loop.
Watching(p) == wd[p] = "polling"

\* The watchdogs whose next poll finds the entry stored under key k.
PollersOf(k) == {p \in Procs : Watching(p) /\ procKey[p] = k /\ map[k] # None}

\* C33: a watchdog polls, removes and announces only the session it was
\* created for: the entry its next poll would find under its key is its own
\* session's, also after kill(k) then start(k) and after start(k) twice, and no
\* entry is polled by two watchdogs.
C33_WatchdogPollsOwnSession ==
    /\ \A p \in Procs : (Watching(p) /\ map[procKey[p]] # None) => map[procKey[p]] = p
    /\ \A k \in Keys : Cardinality(PollersOf(k)) <= 1

\* The step belongs to key k: a command called with k moves or returns, or a
\* background thread of a session started for k moves.
ActsFor(k) ==
    \/ \E c \in Threads : pc'[c] # pc[c] /\ (local[c].key = k \/ local'[c].key = k)
    \/ calls' # calls /\ ret'.key = k
    \/ \E p \in Procs :
         /\ procKey'[p] = k
         /\ \/ wd'[p] # wd[p]
            \/ rdOut'[p] # rdOut[p]
            \/ rdErr'[p] # rdErr[p]
            \/ pipeOut'[p] < pipeOut[p]
            \/ pipeErr'[p] < pipeErr[p]

\* The step removes, replaces or writes to the entry of key k, or emits an
\* event tagged with k.
Touches(k) ==
    \/ map'[k] # map[k]
    \/ \E p \in Procs :
         /\ procKey'[p] = k
         /\ \/ events'[p] # events[p]
            \/ stdinPipe'[p] # stdinPipe[p]
            \/ stdinBuf'[p] # stdinBuf[p]
            \/ killed'[p] # killed[p]

RegistryKeys == {k \in Keys : map[k] # None}

\* The step is one of send_to_pty: it takes the lock for the write, or it
\* returns.
SendStep ==
    \/ \E c \in Threads : pc'[c] # pc[c] /\ "send_write" \in {pc[c], pc'[c]}
    \/ calls' # calls /\ ret'.op = "send"

\* C35: send_to_pty never changes the set of keys of the registry, whether it
\* succeeds, fails for want of an entry, or fails on write or flush; nor does
\* it change what is stored under a key.
C35_SendKeepsKeys ==
    [][SendStep => (RegistryKeys' = RegistryKeys /\ map' = map)]_vars

\* A send delivered a line to a session; after the child's exit a second send
\* failed on the write, and the entry is still registered.
C35_Witness ==
    /\ ret.op = "send"
    /\ ret.value = ErrWrite
    /\ map[ret.key] # None
    /\ stdinPipe[map[ret.key]] # <<>>
    /\ procState[map[ret.key]] = "exited"

\* The handle of session p is still held: by the registry, or by the
\* kill_pty_process that took it out and waits for it.
HandleHeld(p) == ~Unregistered(p) \/ KillInProgress(p)

\* The Child of the phase-2 probe has gone out of scope.
ProbeHandleDropped == child # "none" /\ probePc \in {"parse", "done"}

\* try_wait of the probe's wait loop reported the exit of the child; nothing
\* else in the probe waits for it.
ProbeReaped == loopExit = "exited"

\* C36: every process spawned by the session manager or by the dependency
\* probe is reaped before its handle is discarded: the handle of a session
\* whose child still runs is held (a process that has not exited cannot have
\* been reaped), and the probe's child has been waited for when the probe
\* lets go of it.
C36_ReapedBeforeDiscarded ==
    /\ \A p \in Procs : (Registered(p) /\ procState[p] = "running") => HandleHeld(p)
    /\ ProbeHandleDropped => ProbeReaped

\* The half of C36 about the sessions.
SessionReapedBeforeDiscarded ==
    \A p \in Procs : (Registered(p) /\ procState[p] = "running") => HandleHeld(p)

\* The number of digits of the index in front of a numbered line.
RECURSIVE LeadingDigits(_)
LeadingDigits(t) == IF t # <<>> /\ Head(t) \in Digits THEN 1 + LeadingDigits(Tail(t)) ELSE 0
IndexWidth(i) == LeadingDigits(Trim(depLines[i]))

\* The numbered lines of five fields or more with a name and a size.
FullRows == {i \in DepRows : RowName(i) # <<>> /\ RowSize(i) # <<>>}

\* The records parsed from line i.
RecordsOf(i) ==
    {k \in 1..Len(depOut) : /\ depOut[k].name = RowName(i)
                            /\ depOut[k].download_size = RowSize(i)}

\* C37: every numbered line of five fields or more with a name and a size
\* yields a record, whether its index has one digit or more ("1." to "9.",
\* "10." and above alike), and no line yields more than one: without the
\* fallback there are no more records than such lines.
C37_AnyIndexWidthYieldsRecord ==
    depDone =>
        /\ \A i \in FullRows : RecordsOf(i) # {}
        /\ UnknownRecords = {} => Len(depOut) <= Cardinality(FullRows)

\* The same for the lines whose index has one digit.
OneDigitRowsYieldRecord ==
    depDone =>
        /\ \A i \in FullRows : IndexWidth(i) = 1 => RecordsOf(i) # {}
        /\ UnknownRecords = {} => Len(depOut) <= Cardinality(FullRows)

\* The lines the stdout thread of phase 2 has read that the parser recognises
\* as numbered: a digit with a dot right after it.
RecognisedLines ==
    {i \in 1..Len(output_lines) : is_numbered(Trim(output_lines[i]))}

\* C38: in phase 2 the flag that ends the wait is set only by a line that
\* begins with a digit immediately followed by a dot, that is by exactly the
\* lines the parser recognises afterwards: the flag is set if and only if
\* such a line has been read; a line that starts with a digit and has its dot
\* elsewhere does not set it.
C38_FlagOnlyByRecognisedLine == found_list <=> RecognisedLines # {}

\* The half of C38 that holds: a line the parser recognises sets the flag.
RecognisedLineSetsFlag == RecognisedLines # {} => found_list

\* The rows of the listing: the lines that are not blank and have six
\* columns or more; the short rows are the other lines that are not blank.
Rows == {i \in 1..Len(listLines) : IsRow(listLines[i])}
ShortRows == {i \in 1..Len(listLines) : Trim(listLines[i]) # <<>> /\ ~IsRow(listLines[i])}

\* How often row i stands in the listing.
Copies(i) == Cardinality({j \in Rows : /\ RowId(listLines[j]) = RowId(listLines[i])
                                       /\ RowRef(listLines[j]) = RowRef(listLines[i])})

\* How often row i stands in each of the three lists returned.
InApps(i) ==
    Cardinality({k \in 1..Len(listOut.apps) : listOut.apps[k].app_id = RowId(listLines[i])})
InRuntimes(i) ==
    Cardinality({k \in 1..Len(listOut.runtimes) : listOut.runtimes[k] = RowRef(listLines[i])})
InExtensions(i) ==
    Cardinality({k \in 1..Len(listOut.extensions) :
                    listOut.extensions[k].extension_id = RowId(listLines[i])})

\* C39: get_installed_flatpaks partitions the listing: every row that is not
\* blank and has six columns or more stands in exactly one of apps, runtimes
\* and extensions, once for each time it is listed; a row of fewer than six
\* columns stands in none; the three lists together have as many entries as
\* the listing has rows of six columns or more.
C39_ListingPartitioned ==
    listDone =>
        /\ \A i \in Rows :
               /\ InApps(i) + InRuntimes(i) + InExtensions(i) = Copies(i)
               /\ Copies(i) \in {InApps(i), InRuntimes(i), InExtensions(i)}
        /\ \A i \in ShortRows :
               /\ Trim(Columns(listLines[i])[1]) \notin AppIds \cup ExtensionIds
               /\ \A c \in 1..Len(Columns(listLines[i])) :
                      Trim(Columns(listLines[i])[c]) \notin RuntimeRefs
        /\ Len(listOut.apps) + Len(listOut.runtimes) + Len(listOut.extensions)
               = Cardinality(Rows)

\* A listing of an app, an extension of that app, and a row of five columns
\* has been read: one app, one extension, no runtime.
C39_Witness ==
    /\ listDone
    /\ Cardinality(Rows) = 2
    /\ ShortRows # {}
    /\ Len(listOut.apps) = 1
    /\ Len(listOut.extensions) = 1
    /\ listOut.runtimes = <<>>

====
